---------------------------- MODULE Spec2Model ----------------------------
(***************************************************************************)
(* Model of the stock analysis service in app.py: the technical            *)
(* indicators (TechnicalAnalysis), the valuation models (ValuationModels)  *)
(* and the composite scorer StockInfoAPI.generate_ai_analysis.             *)
(*                                                                         *)
(* Numbers.  Python floats are modelled by exact integers in a fixed unit  *)
(* per quantity:                                                           *)
(*   percent-like indicator values (rsi, priceVsSMA*, bbPercentB, stochK,  *)
(*     stochD, volumeRatio, the "x.xx%" return strings) : 1/100            *)
(*   macd, macdSignal, macdHistogram, momentum          : 1/100            *)
(*   ratios of the fundamentals record (P/E, PEG, P/B, P/S, margins, ROE,  *)
(*     debt/equity, current ratio, growth rates)        : 1/1000           *)
(*   beta                                               : 1/100            *)
(*   marketCap                                          : 10^6 dollars     *)
(*   prices, free cash flow, enterprise value           : cents            *)
(*   rates inside the DCF                               : 1/10000          *)
(*   sub-scores                                         : 1/ScoreDen       *)
(*   overall score                                      : 1/(100*ScoreDen) *)
(* Sub-scores and the overall score are exact rationals in these units;    *)
(* binary rounding of the floats is not modelled.                          *)
(*                                                                         *)
(* Values.  A dictionary value is a tagged record: Num(n) a number, NA the *)
(* string 'N/A', None the Python None, Pct(n) a string "n.nn%", BadPct a   *)
(* string with a '%' that float() cannot parse, Missing an absent key.     *)
(***************************************************************************)
EXTENDS Integers, Sequences, FiniteSets, TLC

VARIABLES fn, pc, args, analysis, frame, ret, hashseed, io, outer, suspended

vars == <<fn, pc, args, analysis, frame, ret, hashseed, io, outer, suspended>>

---------------------------------------------------------------------------
(* Values of the Python dictionaries *)

Num(n) == [k |-> "num", v |-> n]

Pct(n) == [k |-> "pct", v |-> n]

NA == [k |-> "str", v |-> 0]

BadPct == [k |-> "badpct", v |-> 0]

None == [k |-> "none", v |-> 0]

Missing == [k |-> "missing", v |-> 0]

\* isinstance(x, (int, float))
IsNum(x) == x.k = "num"

\* d.get(key, default)
Get(d, key, default) == IF d[key] = Missing THEN default ELSE d[key]

\* Python truthiness of a dictionary value: None, 0 and '' are false
Truthy(x) == CASE x.k = "num" -> x.v # 0
               [] x.k = "none" -> FALSE
               [] x.k = "missing" -> FALSE
               [] OTHER -> TRUE

Min(a, b) == IF a < b THEN a ELSE b

Max(a, b) == IF a > b THEN a ELSE b

\* floor(a * b / c) for a >= 0, 0 <= b, 0 < c, without leaving 32 bits
MulDiv(a, b, c) == (a \div c) * b + ((a % c) * b) \div c

---------------------------------------------------------------------------
(* Accumulation of points, signals, risks and opportunities.  A factor     *)
(* yields the points it earns, the points it makes possible and the        *)
(* messages it appends.                                                    *)

Pts(s, m, sig, rk, op) ==
    [score |-> s, max |-> m, signals |-> sig, risks |-> rk, opportunities |-> op]

NoPts == Pts(0, 0, <<>>, <<>>, <<>>)

Acc(a, b) ==
    [score |-> a.score + b.score, max |-> a.max + b.max,
     signals |-> a.signals \o b.signals, risks |-> a.risks \o b.risks,
     opportunities |-> a.opportunities \o b.opportunities]

RECURSIVE AccAll(_)
AccAll(s) == IF s = <<>> THEN NoPts ELSE Acc(Head(s), AccAll(Tail(s)))

---------------------------------------------------------------------------
(* TECHNICAL ANALYSIS SCORING *)

RsiFactor(rsi) ==
    IF ~IsNum(rsi) THEN NoPts
    ELSE IF 3000 <= rsi.v /\ rsi.v <= 7000
         THEN Pts(15, 20, <<"RSI indicates neutral momentum (neither overbought nor oversold)">>, <<>>, <<>>)
    ELSE IF rsi.v < 3000
         THEN Pts(20, 20, <<"RSI shows oversold conditions - potential buying opportunity">>,
                  <<>>, <<"Oversold RSI suggests potential rebound">>)
    ELSE Pts(5, 20, <<"RSI indicates overbought conditions - caution advised">>,
             <<"High RSI suggests potential pullback">>, <<>>)

Sma200Points(price_vs_sma200) ==
    IF ~(Truthy(price_vs_sma200) /\ IsNum(price_vs_sma200)) THEN NoPts
    ELSE IF price_vs_sma200.v > 0
         THEN Pts(10, 0, <<"Price above 200-day SMA - long-term uptrend confirmed">>, <<>>, <<>>)
    ELSE Pts(2, 0, <<"Price below 200-day SMA - long-term downtrend">>,
             <<"Trading below 200-day moving average indicates weak long-term trend">>, <<>>)

Sma50Points(price_vs_sma50) ==
    IF ~(Truthy(price_vs_sma50) /\ IsNum(price_vs_sma50)) THEN NoPts
    ELSE IF price_vs_sma50.v > 0
         THEN Pts(8, 0, <<"Price above 50-day SMA - medium-term bullish">>, <<>>, <<>>)
    ELSE Pts(3, 0, <<"Price below 50-day SMA - medium-term bearish">>, <<>>, <<>>)

Sma20Points(price_vs_sma20) ==
    IF ~(Truthy(price_vs_sma20) /\ IsNum(price_vs_sma20)) THEN NoPts
    ELSE IF price_vs_sma20.v > 0
         THEN Pts(7, 0, <<"Price above 20-day SMA - short-term positive momentum">>, <<>>, <<>>)
    ELSE Pts(3, 0, <<>>, <<>>, <<>>)

MovingAverageFactor(stock_data) ==
    AccAll(<< Pts(0, 25, <<>>, <<>>, <<>>),
              Sma200Points(Get(stock_data, "priceVsSMA200", None)),
              Sma50Points(Get(stock_data, "priceVsSMA50", None)),
              Sma20Points(Get(stock_data, "priceVsSMA20", None)) >>)

MacdLinePoints(macd, macd_signal) ==
    IF ~(IsNum(macd) /\ IsNum(macd_signal)) THEN NoPts
    ELSE IF macd.v > macd_signal.v
         THEN Pts(10, 0, <<"MACD above signal line - bullish momentum">>, <<>>, <<>>)
    ELSE Pts(3, 0, <<"MACD below signal line - bearish momentum">>,
             <<"MACD bearish crossover indicates weakening momentum">>, <<>>)

MacdHistPoints(macd_hist) ==
    IF ~IsNum(macd_hist) THEN NoPts
    ELSE IF macd_hist.v > 0 THEN Pts(5, 0, <<>>, <<>>, <<>>)
    ELSE Pts(1, 0, <<>>, <<>>, <<>>)

MacdFactor(stock_data) ==
    AccAll(<< Pts(0, 15, <<>>, <<>>, <<>>),
              MacdLinePoints(Get(stock_data, "macd", NA), Get(stock_data, "macdSignal", NA)),
              MacdHistPoints(Get(stock_data, "macdHistogram", NA)) >>)

BollingerPoints(bb_percent) ==
    IF ~IsNum(bb_percent) THEN NoPts
    ELSE IF 2000 <= bb_percent.v /\ bb_percent.v <= 8000
         THEN Pts(10, 0, <<"Price within normal Bollinger Band range">>, <<>>, <<>>)
    ELSE IF bb_percent.v < 2000
         THEN Pts(8, 0, <<"Price near lower Bollinger Band - potential support">>,
                  <<>>, <<"Near lower Bollinger Band suggests potential bounce">>)
    ELSE Pts(5, 0, <<"Price near upper Bollinger Band - potential resistance">>,
             <<"Near upper Bollinger Band suggests potential pullback">>, <<>>)

BollingerFactor(stock_data) ==
    Acc(Pts(0, 10, <<>>, <<>>, <<>>), BollingerPoints(Get(stock_data, "bbPercentB", None)))

StochasticPoints(stoch_k, stoch_d) ==
    IF ~(IsNum(stoch_k) /\ IsNum(stoch_d)) THEN NoPts
    ELSE IF stoch_k.v > stoch_d.v /\ stoch_k.v < 8000
         THEN Pts(8, 0, <<"Stochastic shows bullish momentum">>, <<>>, <<>>)
    ELSE IF stoch_k.v < stoch_d.v /\ stoch_k.v > 2000
         THEN Pts(3, 0, <<"Stochastic shows bearish momentum">>, <<>>, <<>>)
    ELSE IF stoch_k.v < 2000
         THEN Pts(7, 0, <<>>, <<>>, <<"Oversold stochastic suggests potential reversal">>)
    ELSE NoPts

StochasticFactor(stock_data) ==
    Acc(Pts(0, 10, <<>>, <<>>, <<>>),
        StochasticPoints(Get(stock_data, "stochK", NA), Get(stock_data, "stochD", NA)))

VolumePoints(volume_ratio) ==
    IF ~IsNum(volume_ratio) THEN NoPts
    ELSE IF volume_ratio.v > 12000
         THEN Pts(8, 0, <<"Above-average volume indicates strong interest">>, <<>>, <<>>)
    ELSE IF volume_ratio.v < 8000
         THEN Pts(3, 0, <<"Below-average volume suggests weak conviction">>, <<>>, <<>>)
    ELSE NoPts

VolumeFactor(stock_data) ==
    Acc(Pts(0, 10, <<>>, <<>>, <<>>), VolumePoints(Get(stock_data, "volumeRatio", None)))

MomentumPoints(momentum) ==
    IF ~IsNum(momentum) THEN NoPts
    ELSE IF momentum.v > 0 THEN Pts(8, 0, <<"Positive momentum detected">>, <<>>, <<>>)
    ELSE Pts(2, 0, <<"Negative momentum - price declining">>,
             <<"Negative momentum indicates downward price pressure">>, <<>>)

MomentumFactor(stock_data) ==
    Acc(Pts(0, 10, <<>>, <<>>, <<>>), MomentumPoints(Get(stock_data, "momentum", NA)))

\* tech_score, tech_max and the messages of lines 538-662
TechnicalScoring(stock_data) ==
    AccAll(<< RsiFactor(Get(stock_data, "rsi", NA)),
              MovingAverageFactor(stock_data),
              MacdFactor(stock_data),
              BollingerFactor(stock_data),
              StochasticFactor(stock_data),
              VolumeFactor(stock_data),
              MomentumFactor(stock_data) >>)

---------------------------------------------------------------------------
(* FUNDAMENTAL ANALYSIS SCORING *)

PePoints(pe_ratio) ==
    IF ~(IsNum(pe_ratio) /\ pe_ratio.v > 0) THEN NoPts
    ELSE IF 10000 <= pe_ratio.v /\ pe_ratio.v <= 25000
         THEN Pts(15, 0, <<"P/E ratio in reasonable range">>, <<>>, <<>>)
    ELSE IF pe_ratio.v < 10000
         THEN Pts(18, 0, <<"Low P/E ratio suggests undervaluation">>,
                  <<>>, <<"Attractive P/E ratio indicates potential value">>)
    ELSE IF pe_ratio.v > 30000
         THEN Pts(5, 0, <<"High P/E ratio suggests overvaluation">>,
                  <<"Elevated P/E ratio indicates expensive valuation">>, <<>>)
    ELSE NoPts

PegFactor(peg_ratio) ==
    IF ~(IsNum(peg_ratio) /\ peg_ratio.v > 0) THEN NoPts
    ELSE IF peg_ratio.v < 1000
         THEN Pts(15, 15, <<"PEG ratio below 1 - good growth at reasonable price">>,
                  <<>>, <<"Low PEG ratio suggests growth potential">>)
    ELSE IF 1000 <= peg_ratio.v /\ peg_ratio.v <= 2000
         THEN Pts(10, 15, <<"PEG ratio in acceptable range">>, <<>>, <<>>)
    ELSE Pts(3, 15, <<>>, <<"High PEG ratio suggests overvaluation relative to growth">>, <<>>)

ProfitMarginPoints(profit_margin) ==
    IF ~IsNum(profit_margin) THEN NoPts
    ELSE IF profit_margin.v > 150
         THEN Pts(8, 0, <<"Strong profit margins indicate efficient operations">>, <<>>, <<>>)
    ELSE IF profit_margin.v > 0 THEN Pts(5, 0, <<>>, <<>>, <<>>)
    ELSE Pts(1, 0, <<>>, <<"Negative profit margins indicate financial distress">>, <<>>)

RoePoints(roe) ==
    IF ~IsNum(roe) THEN NoPts
    ELSE IF roe.v > 150
         THEN Pts(6, 0, <<"High return on equity shows efficient capital use">>, <<>>, <<>>)
    ELSE IF roe.v > 0 THEN Pts(3, 0, <<>>, <<>>, <<>>)
    ELSE Pts(1, 0, <<>>, <<"Negative ROE indicates poor capital efficiency">>, <<>>)

DebtToEquityFactor(debt_to_equity) ==
    IF ~IsNum(debt_to_equity) THEN NoPts
    ELSE IF debt_to_equity.v < 1000
         THEN Pts(10, 10, <<"Low debt-to-equity ratio indicates financial stability">>, <<>>, <<>>)
    ELSE IF debt_to_equity.v < 2000 THEN Pts(7, 10, <<>>, <<>>, <<>>)
    ELSE Pts(3, 10, <<>>, <<"High debt-to-equity ratio increases financial risk">>, <<>>)

CurrentRatioFactor(current_ratio) ==
    IF ~IsNum(current_ratio) THEN NoPts
    ELSE IF 1500 <= current_ratio.v /\ current_ratio.v <= 3000
         THEN Pts(10, 10, <<"Healthy current ratio indicates good liquidity">>, <<>>, <<>>)
    ELSE IF current_ratio.v < 1000
         THEN Pts(2, 10, <<>>, <<"Current ratio below 1 suggests liquidity concerns">>, <<>>)
    ELSE Pts(0, 10, <<>>, <<>>, <<>>)

RevenueGrowthPoints(revenue_growth) ==
    IF ~IsNum(revenue_growth) THEN NoPts
    ELSE IF revenue_growth.v > 100
         THEN Pts(8, 0, <<"Strong revenue growth indicates expanding business">>,
                  <<>>, <<"High revenue growth suggests market expansion">>)
    ELSE IF revenue_growth.v > 0 THEN Pts(5, 0, <<>>, <<>>, <<>>)
    ELSE Pts(1, 0, <<>>, <<"Declining revenue indicates business contraction">>, <<>>)

EarningsGrowthPoints(earnings_growth) ==
    IF ~IsNum(earnings_growth) THEN NoPts
    ELSE IF earnings_growth.v > 150
         THEN Pts(7, 0, <<"Strong earnings growth shows profitability improvement">>,
                  <<>>, <<"High earnings growth indicates improving fundamentals">>)
    ELSE IF earnings_growth.v > 0 THEN Pts(4, 0, <<>>, <<>>, <<>>)
    ELSE Pts(1, 0, <<>>, <<"Negative earnings growth indicates declining profitability">>, <<>>)

MarketCapPoints(market_cap) ==
    IF IsNum(market_cap) /\ market_cap.v > 10000
    THEN Pts(5, 0, <<"Large market cap indicates established company">>, <<>>, <<>>)
    ELSE NoPts

BetaPoints(beta) ==
    IF ~IsNum(beta) THEN NoPts
    ELSE IF 80 <= beta.v /\ beta.v <= 120
         THEN Pts(5, 0, <<"Beta near 1 - market-aligned volatility">>, <<>>, <<>>)
    ELSE IF beta.v > 150
         THEN Pts(2, 0, <<>>, <<"High beta indicates high volatility and market sensitivity">>, <<>>)
    ELSE NoPts

\* fund_score, fund_max and the messages of lines 665-793
FundamentalScoring(info) ==
    AccAll(<< Pts(0, 20, <<>>, <<>>, <<>>),
              PePoints(Get(info, "trailingPE", None)),
              PegFactor(Get(info, "pegRatio", None)),
              Pts(0, 20, <<>>, <<>>, <<>>),
              ProfitMarginPoints(Get(info, "profitMargins", None)),
              RoePoints(Get(info, "returnOnEquity", None)),
              DebtToEquityFactor(Get(info, "debtToEquity", None)),
              CurrentRatioFactor(Get(info, "currentRatio", None)),
              Pts(0, 15, <<>>, <<>>, <<>>),
              RevenueGrowthPoints(Get(info, "revenueGrowth", None)),
              EarningsGrowthPoints(Get(info, "earningsQuarterlyGrowth", None)),
              Pts(0, 10, <<>>, <<>>, <<>>),
              MarketCapPoints(Get(info, "marketCap", None)),
              BetaPoints(Get(info, "beta", None)) >>)

---------------------------------------------------------------------------
(* MOMENTUM SCORING *)

\* isinstance(x, str) and '%' in x, and float(x.replace('%', '')) succeeds
ParsesAsPercent(x) == x.k = "pct"

OneYearReturnPoints(one_year_return) ==
    IF ~ParsesAsPercent(one_year_return) THEN NoPts
    ELSE IF one_year_return.v > 2000
         THEN Pts(20, 0, <<"Strong 1-year return indicates positive momentum">>, <<>>, <<>>)
    ELSE IF one_year_return.v > 0 THEN Pts(12, 0, <<>>, <<>>, <<>>)
    ELSE Pts(3, 0, <<>>, <<"Negative 1-year return indicates poor recent performance">>, <<>>)

FiveYearReturnPoints(five_year_return) ==
    IF ~ParsesAsPercent(five_year_return) THEN NoPts
    ELSE IF five_year_return.v > 5000
         THEN Pts(20, 0, <<"Excellent 5-year return shows long-term growth">>,
                  <<>>, <<"Strong 5-year track record indicates quality investment">>)
    ELSE IF five_year_return.v > 2000 THEN Pts(15, 0, <<>>, <<>>, <<>>)
    ELSE IF five_year_return.v > 0 THEN Pts(8, 0, <<>>, <<>>, <<>>)
    ELSE Pts(2, 0, <<>>, <<"Negative 5-year return indicates long-term underperformance">>, <<>>)

\* momentum_score, momentum_max and the messages of lines 796-834
MomentumScoring(stock_data) ==
    AccAll(<< Pts(0, 30, <<>>, <<>>, <<>>),
              OneYearReturnPoints(Get(stock_data, "oneYearReturn", NA)),
              Pts(0, 20, <<>>, <<>>, <<>>),
              FiveYearReturnPoints(Get(stock_data, "fiveYearReturn", NA)) >>)

---------------------------------------------------------------------------
(* VALUE SCORING *)

\* current_price of lines 534-536: a string becomes 0, None stays None
CurrentPrice(stock_data) ==
    LET p == Get(stock_data, "currentPrice", Num(0))
    IN  IF p.k \in {"str", "pct", "badpct"} THEN Num(0) ELSE p

ValuePePoints(pe_ratio) ==
    IF ~(IsNum(pe_ratio) /\ pe_ratio.v > 0) THEN NoPts
    ELSE IF pe_ratio.v < 15000 THEN Pts(25, 25, <<>>, <<>>, <<>>)
    ELSE IF pe_ratio.v < 20000 THEN Pts(18, 25, <<>>, <<>>, <<>>)
    ELSE IF pe_ratio.v < 25000 THEN Pts(12, 25, <<>>, <<>>, <<>>)
    ELSE Pts(5, 25, <<>>, <<>>, <<>>)

ValuePbPoints(price_to_book) ==
    IF ~(IsNum(price_to_book) /\ price_to_book.v > 0) THEN NoPts
    ELSE IF price_to_book.v < 1000
         THEN Pts(25, 25, <<>>, <<>>, <<"Price below book value suggests deep value">>)
    ELSE IF price_to_book.v < 2000 THEN Pts(18, 25, <<>>, <<>>, <<>>)
    ELSE IF price_to_book.v < 3000 THEN Pts(12, 25, <<>>, <<>>, <<>>)
    ELSE Pts(5, 25, <<>>, <<>>, <<>>)

ValuePegPoints(peg_ratio) ==
    IF ~(IsNum(peg_ratio) /\ peg_ratio.v > 0) THEN NoPts
    ELSE IF peg_ratio.v < 800 THEN Pts(25, 25, <<>>, <<>>, <<>>)
    ELSE IF peg_ratio.v < 1200 THEN Pts(18, 25, <<>>, <<>>, <<>>)
    ELSE Pts(8, 25, <<>>, <<>>, <<>>)

\* `isinstance(target_mean, (int, float)) and current_price > 0` raises
\* TypeError when the left operand holds and current_price is None
TargetTestRaises(target_mean, current_price) ==
    IsNum(target_mean) /\ ~IsNum(current_price)

\* upside = (target_mean - current_price) / current_price * 100
ValueTargetPoints(target_mean, current_price) ==
    IF ~(IsNum(target_mean) /\ IsNum(current_price) /\ current_price.v > 0) THEN NoPts
    ELSE LET c == current_price.v
             d == (target_mean.v - c) * 100
         IN  IF d > 20 * c
             THEN Pts(25, 25, <<>>, <<>>, <<"Analyst target suggests upside potential">>)
             ELSE IF d > 10 * c THEN Pts(18, 25, <<>>, <<>>, <<>>)
             ELSE IF d > 0 THEN Pts(12, 25, <<>>, <<>>, <<>>)
             ELSE Pts(5, 25, <<>>, <<>>, <<>>)

\* value_score, value_max and the messages of lines 838-887
ValueScoring(info, current_price) ==
    AccAll(<< ValuePePoints(Get(info, "trailingPE", None)),
              ValuePbPoints(Get(info, "priceToBook", None)),
              ValuePegPoints(Get(info, "pegRatio", None)),
              ValueTargetPoints(Get(info, "targetMeanPrice", None), current_price) >>)

---------------------------------------------------------------------------
(* GROWTH SCORING *)

GrowthRevenuePoints(revenue_growth) ==
    IF ~IsNum(revenue_growth) THEN NoPts
    ELSE IF revenue_growth.v > 200 THEN Pts(30, 30, <<>>, <<>>, <<>>)
    ELSE IF revenue_growth.v > 100 THEN Pts(20, 30, <<>>, <<>>, <<>>)
    ELSE IF revenue_growth.v > 0 THEN Pts(12, 30, <<>>, <<>>, <<>>)
    ELSE Pts(3, 30, <<>>, <<>>, <<>>)

GrowthEarningsPoints(earnings_growth) ==
    IF ~IsNum(earnings_growth) THEN NoPts
    ELSE IF earnings_growth.v > 250 THEN Pts(30, 30, <<>>, <<>>, <<>>)
    ELSE IF earnings_growth.v > 150 THEN Pts(20, 30, <<>>, <<>>, <<>>)
    ELSE IF earnings_growth.v > 0 THEN Pts(12, 30, <<>>, <<>>, <<>>)
    ELSE Pts(3, 30, <<>>, <<>>, <<>>)

GrowthPegPoints(peg_ratio) ==
    IF ~(IsNum(peg_ratio) /\ peg_ratio.v > 0) THEN NoPts
    ELSE IF peg_ratio.v < 1000 THEN Pts(20, 20, <<>>, <<>>, <<>>)
    ELSE IF peg_ratio.v < 1500 THEN Pts(15, 20, <<>>, <<>>, <<>>)
    ELSE Pts(5, 20, <<>>, <<>>, <<>>)

GrowthForwardPePoints(forward_pe, pe_ratio) ==
    IF ~(IsNum(forward_pe) /\ IsNum(pe_ratio) /\ forward_pe.v > 0 /\ pe_ratio.v > 0) THEN NoPts
    ELSE IF forward_pe.v < pe_ratio.v
         THEN Pts(20, 20, <<"Forward P/E lower than trailing - earnings expected to grow">>, <<>>, <<>>)
    ELSE Pts(8, 20, <<>>, <<>>, <<>>)

\* growth_score, growth_max and the messages of lines 891-933
GrowthScoring(info) ==
    AccAll(<< GrowthRevenuePoints(Get(info, "revenueGrowth", None)),
              GrowthEarningsPoints(Get(info, "earningsQuarterlyGrowth", None)),
              GrowthPegPoints(Get(info, "pegRatio", None)),
              GrowthForwardPePoints(Get(info, "forwardPE", None), Get(info, "trailingPE", None)) >>)

---------------------------------------------------------------------------
(* ValuationModels.calculate_dcf.  Money is in cents and rates are in      *)
(* 1/RateScale; every product and quotient is truncated to the unit.       *)

RateScale == 100 * 100

Abs(a) == IF a < 0 THEN -a ELSE a

Sign(a) == IF a < 0 THEN -1 ELSE 1

\* a * b / c truncated toward zero, c # 0
SMulDiv(a, b, c) == Sign(a) * Sign(b) * Sign(c) * MulDiv(Abs(a), Abs(b), Abs(c))

\* x / (1 + discount_rate) ** year
RECURSIVE Discounted(_, _, _)
Discounted(x, discount_rate, year) ==
    IF year = 0 THEN x
    ELSE Discounted(SMulDiv(x, RateScale, RateScale + discount_rate), discount_rate, year - 1)

\* a loop that discounts the cash flow of a year as if it arrived a year
\* earlier
RECURSIVE ProjectCashFlowsEarly(_, _, _, _, _, _)
ProjectCashFlowsEarly(year, years, current_fcf, pv_cash_flows, growth_rate, discount_rate) ==
    IF year > years THEN <<current_fcf, pv_cash_flows>>
    ELSE LET fcf == SMulDiv(current_fcf, RateScale + growth_rate, RateScale)
             pv == Discounted(fcf, discount_rate, year - 1)
         IN  ProjectCashFlowsEarly(year + 1, years, fcf, pv_cash_flows + pv,
                                   growth_rate, discount_rate)

\* the loop of lines 168-171: <<current_fcf, pv_cash_flows>> after year .. years
RECURSIVE ProjectCashFlows(_, _, _, _, _, _)
ProjectCashFlows(year, years, current_fcf, pv_cash_flows, growth_rate, discount_rate) ==
    IF year > years THEN <<current_fcf, pv_cash_flows>>
    ELSE LET fcf == SMulDiv(current_fcf, RateScale + growth_rate, RateScale)
             pv == Discounted(fcf, discount_rate, year)
         IN  ProjectCashFlows(year + 1, years, fcf, pv_cash_flows + pv, growth_rate, discount_rate)

DcfUnavailable == [kind |-> "None"]

DcfZeroDivision == [kind |-> "ZeroDivisionError"]

DcfTypeError == [kind |-> "TypeError"]

CalculateDcf(free_cash_flow, growth_rate, terminal_growth_rate, discount_rate, years, shares_outstanding) ==
    IF ~IsNum(free_cash_flow) \/ free_cash_flow.v <= 0 THEN DcfUnavailable
    ELSE
    LET g  == IF IsNum(growth_rate) THEN growth_rate.v ELSE 500
        tg == IF IsNum(terminal_growth_rate) THEN terminal_growth_rate.v ELSE 250
        r  == IF IsNum(discount_rate) THEN discount_rate.v ELSE 1000
    IN  IF years >= 1 /\ RateScale + r = 0 THEN DcfZeroDivision
        ELSE IF r - tg = 0 THEN DcfZeroDivision
        ELSE
        LET proj == ProjectCashFlows(1, years, free_cash_flow.v, 0, g, r)
            current_fcf == proj[1]
            pv_cash_flows == proj[2]
            terminal_fcf == SMulDiv(current_fcf, RateScale + tg, RateScale)
            terminal_value == SMulDiv(terminal_fcf, RateScale, r - tg)
            pv_terminal == Discounted(terminal_value, r, years)
            enterprise_value == pv_cash_flows + pv_terminal
            has_shares == Truthy(shares_outstanding) /\ IsNum(shares_outstanding)
                          /\ shares_outstanding.v > 0
        IN  \* `shares_outstanding and shares_outstanding > 0` with a str
            IF shares_outstanding.k \in {"str", "pct", "badpct"} THEN DcfTypeError
            ELSE
            [kind |-> "result",
             enterprise_value |-> enterprise_value,
             pv_cash_flows |-> pv_cash_flows,
             pv_terminal |-> pv_terminal,
             has_equity_value_per_share |-> has_shares,
             equity_value_per_share |->
                 IF has_shares THEN SMulDiv(enterprise_value, 1, shares_outstanding.v) ELSE 0,
             assumptions |-> [growth_rate |-> g, terminal_growth |-> tg,
                              discount_rate |-> r, years |-> years]]

---------------------------------------------------------------------------
(* ValuationModels.calculate_relative_valuation.  premium_discount is in   *)
(* 1/RelDen: (100 * ratio / reference - 100) / 3 with the references       *)
(* 22.5, 3.5 and 2.5 and the ratios in 1/1000.                             *)

RelDen == 3 * 1575

RelTerm(ratio, weight) ==
    IF IsNum(ratio) /\ ratio.v > 0 THEN weight * ratio.v - 100 * 1575 ELSE 0

RelVsMarket(ratio) ==
    IF IsNum(ratio) /\ ratio.v > 0 THEN "% of market average" ELSE "N/A"

\* a labelling whose bands include their lower bound
OverallValuationInclusive(avg_premium) ==
    IF avg_premium >= 20 * RelDen THEN "EXPENSIVE"
    ELSE IF avg_premium >= 10 * RelDen THEN "SLIGHTLY EXPENSIVE"
    ELSE IF avg_premium >= (-10) * RelDen THEN "FAIR"
    ELSE IF avg_premium >= (-20) * RelDen THEN "SLIGHTLY CHEAP"
    ELSE "CHEAP"

\* lines 250-261
OverallValuation(avg_premium) ==
    IF avg_premium > 20 * RelDen THEN "EXPENSIVE"
    ELSE IF avg_premium > 10 * RelDen THEN "SLIGHTLY EXPENSIVE"
    ELSE IF avg_premium > (-10) * RelDen THEN "FAIR"
    ELSE IF avg_premium > (-20) * RelDen THEN "SLIGHTLY CHEAP"
    ELSE "CHEAP"

CalculateRelativeValuation(info) ==
    LET pe_ratio == Get(info, "trailingPE", None)
        pb_ratio == Get(info, "priceToBook", None)
        ps_ratio == Get(info, "priceToSalesTrailing12Months", None)
        premium_discount == RelTerm(pe_ratio, 7) + RelTerm(pb_ratio, 45) + RelTerm(ps_ratio, 63)
    IN  [pe_vs_market |-> RelVsMarket(pe_ratio),
         pb_vs_market |-> RelVsMarket(pb_ratio),
         ps_vs_market |-> RelVsMarket(ps_ratio),
         overall_valuation |-> OverallValuation(premium_discount),
         premium_discount |-> premium_discount]

---------------------------------------------------------------------------
(* MacroEconomicAnalysis.analyze_macro_environment.  A sector or industry  *)
(* string is modelled by the set of the classifier's keywords that its     *)
(* lower-cased text contains; None, '' and 'N/A' contain none.             *)

MacroDefaults ==
    [sector_outlook |-> "NEUTRAL",
     economic_pressures |-> <<>>,
     market_conditions |-> "NEUTRAL",
     interest_rate_sensitivity |-> "MEDIUM",
     inflation_impact |-> "MEDIUM",
     recession_resilience |-> "MEDIUM"]

SectorRules(m, sector_lower, industry_lower) ==
    IF "technology" \in sector_lower \/ "software" \in industry_lower
       \/ "semiconductor" \in industry_lower
    THEN [m EXCEPT !.sector_outlook = "POSITIVE",
                   !.economic_pressures = Append(@, "Technology sector benefits from digital transformation trends"),
                   !.interest_rate_sensitivity = "HIGH",
                   !.recession_resilience = "LOW-MEDIUM"]
    ELSE IF "financial" \in sector_lower \/ "bank" \in industry_lower
    THEN [m EXCEPT !.sector_outlook = "NEUTRAL",
                   !.interest_rate_sensitivity = "VERY HIGH",
                   !.economic_pressures = Append(@, "Financial sector highly sensitive to interest rate changes"),
                   !.recession_resilience = "LOW"]
    ELSE IF "consumer" \in sector_lower /\ "discretionary" \in sector_lower
    THEN [m EXCEPT !.sector_outlook = "CAUTIOUS",
                   !.economic_pressures = Append(@, "Consumer discretionary sensitive to economic cycles"),
                   !.recession_resilience = "LOW",
                   !.inflation_impact = "HIGH"]
    ELSE IF "consumer" \in sector_lower /\ "staples" \in sector_lower
    THEN [m EXCEPT !.sector_outlook = "STABLE",
                   !.recession_resilience = "HIGH",
                   !.economic_pressures = Append(@, "Consumer staples provide defensive characteristics"),
                   !.inflation_impact = "MEDIUM"]
    ELSE IF "healthcare" \in sector_lower \/ "health" \in sector_lower
    THEN [m EXCEPT !.sector_outlook = "POSITIVE",
                   !.recession_resilience = "HIGH",
                   !.economic_pressures = Append(@, "Healthcare sector shows defensive characteristics"),
                   !.inflation_impact = "LOW-MEDIUM"]
    ELSE IF "energy" \in sector_lower \/ "oil" \in industry_lower
    THEN [m EXCEPT !.sector_outlook = "VOLATILE",
                   !.economic_pressures = Append(@, "Energy sector subject to commodity price volatility"),
                   !.recession_resilience = "MEDIUM",
                   !.inflation_impact = "HIGH"]
    ELSE IF "utilities" \in sector_lower
    THEN [m EXCEPT !.sector_outlook = "STABLE",
                   !.recession_resilience = "HIGH",
                   !.interest_rate_sensitivity = "HIGH",
                   !.economic_pressures = Append(@, "Utilities provide stable dividends but sensitive to rates")]
    ELSE IF "real estate" \in sector_lower \/ "reit" \in industry_lower
    THEN [m EXCEPT !.sector_outlook = "CAUTIOUS",
                   !.interest_rate_sensitivity = "VERY HIGH",
                   !.recession_resilience = "LOW-MEDIUM",
                   !.economic_pressures = Append(@, "Real estate highly sensitive to interest rates and economic cycles")]
    ELSE m

\* lines 344-356: ticker_obj.info is read inside try/except-pass; a ticker
\* object is [info_raises, info], info a dictionary with the key beta
BetaRule(m, ticker_obj) ==
    IF ticker_obj.info_raises THEN m
    ELSE LET beta == Get(ticker_obj.info, "beta", Num(100))
         IN  IF ~IsNum(beta) THEN m
             ELSE IF beta.v > 130
             THEN [m EXCEPT !.market_conditions = "HIGH VOLATILITY",
                            !.economic_pressures = Append(@, "High beta indicates high market sensitivity")]
             ELSE IF beta.v < 70
             THEN [m EXCEPT !.market_conditions = "LOW VOLATILITY",
                            !.economic_pressures = Append(@, "Low beta indicates defensive characteristics")]
             ELSE m

\* the sector rules applied a second time to the result of the first
AnalyzeMacroEnvironmentTwice(ticker_obj, sector, industry) ==
    BetaRule(SectorRules(SectorRules(MacroDefaults, sector, industry), sector, industry),
             ticker_obj)

AnalyzeMacroEnvironment(ticker_obj, sector, industry) ==
    BetaRule(SectorRules(MacroDefaults, sector, industry), ticker_obj)

---------------------------------------------------------------------------
(* SocialSentimentAnalysis.analyze_sentiment.  hist_data is                *)
(* [isNone, Close]: None, or the frame's Close column in cents.            *)

\* info.get('recommendationKey', '').upper() if info.get('recommendationKey') else ''
RecommendationUpper(key) ==
    CASE key = "strong_buy" -> "STRONG_BUY"
      [] key = "buy" -> "BUY"
      [] key = "hold" -> "HOLD"
      [] key = "sell" -> "SELL"
      [] key = "strong_sell" -> "STRONG_SELL"
      [] OTHER -> ""

RetailInterest(avg_volume, current_volume) ==
    IF IsNum(avg_volume) /\ IsNum(current_volume) /\ avg_volume.v > 0
    THEN IF 10 * current_volume.v > 15 * avg_volume.v THEN "HIGH"
         ELSE IF 10 * current_volume.v < 7 * avg_volume.v THEN "LOW"
         ELSE "MEDIUM"
    ELSE "MEDIUM"

AnalystSentiment(recommendation) ==
    IF recommendation \in {"STRONG_BUY", "BUY"} THEN "BULLISH"
    ELSE IF recommendation \in {"STRONG_SELL", "SELL"} THEN "BEARISH"
    ELSE "NEUTRAL"

\* recent_return = (Close[-1] - Close[-20]) / Close[-20] * 100, Close[-20] > 0
MomentumSentiment(hist_data) ==
    IF hist_data.isNone \/ Len(hist_data.Close) < 20 THEN "NEUTRAL"
    ELSE LET n == Len(hist_data.Close)
             base == hist_data.Close[n - 19]
             d == (hist_data.Close[n] - base) * 100
         IN  IF d > 10 * base THEN "VERY BULLISH"
             ELSE IF d > 5 * base THEN "BULLISH"
             ELSE IF d < (-10) * base THEN "VERY BEARISH"
             ELSE IF d < (-5) * base THEN "BEARISH"
             ELSE "NEUTRAL"

InstitutionalInterest(inst_ownership) ==
    IF ~IsNum(inst_ownership) THEN "MEDIUM"
    ELSE IF inst_ownership.v > 70000 THEN "HIGH"
    ELSE IF inst_ownership.v < 30000 THEN "LOW"
    ELSE "MEDIUM"

SentimentScore(analyst, momentum, retail, institutional) ==
      (IF analyst = "BULLISH" THEN 30 ELSE IF analyst = "BEARISH" THEN -30 ELSE 0)
    + (IF momentum \in {"VERY BULLISH", "BULLISH"} THEN 25
       ELSE IF momentum \in {"VERY BEARISH", "BEARISH"} THEN -25 ELSE 0)
    + (IF retail = "HIGH" THEN 20 ELSE IF retail = "LOW" THEN -20 ELSE 0)
    + (IF institutional = "HIGH" THEN 25 ELSE IF institutional = "LOW" THEN -15 ELSE 0)

\* the overall label with 40 counted as above 40
OverallSentimentInclusive(sentiment_score) ==
    IF sentiment_score >= 40 THEN "BULLISH"
    ELSE IF sentiment_score > 15 THEN "SLIGHTLY BULLISH"
    ELSE IF sentiment_score < -40 THEN "BEARISH"
    ELSE IF sentiment_score < -15 THEN "SLIGHTLY BEARISH"
    ELSE "NEUTRAL"

OverallSentiment(sentiment_score) ==
    IF sentiment_score > 40 THEN "BULLISH"
    ELSE IF sentiment_score > 15 THEN "SLIGHTLY BULLISH"
    ELSE IF sentiment_score < -40 THEN "BEARISH"
    ELSE IF sentiment_score < -15 THEN "SLIGHTLY BEARISH"
    ELSE "NEUTRAL"

SentimentIndicators(retail, analyst, momentum, institutional) ==
       (IF retail = "HIGH" THEN <<"High trading volume suggests strong market interest">>
        ELSE IF retail = "LOW" THEN <<"Low trading volume suggests weak interest">> ELSE <<>>)
    \o (IF analyst = "BULLISH" THEN <<"Analyst recommendations are bullish">>
        ELSE IF analyst = "BEARISH" THEN <<"Analyst recommendations are bearish">> ELSE <<>>)
    \o (IF momentum = "VERY BULLISH"
        THEN <<"Strong recent price momentum indicates positive sentiment">>
        ELSE IF momentum = "VERY BEARISH"
        THEN <<"Weak recent price momentum indicates negative sentiment">> ELSE <<>>)
    \o (IF institutional = "HIGH"
        THEN <<"High institutional ownership indicates professional confidence">>
        ELSE IF institutional = "LOW"
        THEN <<"Low institutional ownership may indicate lack of professional interest">>
        ELSE <<>>)

AnalyzeSentiment(info, hist_data) ==
    LET retail == RetailInterest(Get(info, "averageVolume", Num(0)), Get(info, "volume", Num(0)))
        analyst == AnalystSentiment(RecommendationUpper(info.recommendationKey))
        momentum == MomentumSentiment(hist_data)
        institutional == InstitutionalInterest(Get(info, "heldPercentInstitutions", None))
        sentiment_score == SentimentScore(analyst, momentum, retail, institutional)
    IN  [overall_sentiment |-> OverallSentiment(sentiment_score),
         retail_interest |-> retail,
         institutional_interest |-> institutional,
         analyst_sentiment |-> analyst,
         momentum_sentiment |-> momentum,
         indicators |-> SentimentIndicators(retail, analyst, momentum, institutional)]

---------------------------------------------------------------------------
(* Sub-scores, overall score, rating.  A sub-score is an exact rational    *)
(* in 1/ScoreDen; every possible denominator (tech_max, fund_max, ...)     *)
(* divides 100 * ScoreDen.                                                 *)

ScoreDen == 4 * 9 * 7 * 13 * 17

\* (score / max * 100) if max > 0 else 50
ScoreOf(score, max) == IF max > 0 THEN (100 * score * ScoreDen) \div max ELSE 50 * ScoreDen

\* a sub-score left as computed
ClampNothing(x) == x

\* max(0, min(100, x))
Clamp(x) == Max(0, Min(100 * ScoreDen, x))

\* round(num / den) to the nearest integer, ties to even, den > 0, num >= 0
RoundHalfEven(num, den) ==
    LET q == num \div den
        r == num % den
    IN  IF 2 * r < den THEN q
        ELSE IF 2 * r > den THEN q + 1
        ELSE IF q % 2 = 0 THEN q ELSE q + 1

\* round(v, 1) of a sub-score, in tenths
RoundScore(v) == RoundHalfEven(10 * v, ScoreDen)

\* weights that give the technical score a quarter
WeightsTechnicalQuarter ==
    [technical |-> 25, fundamental |-> 25, momentum |-> 15, value |-> 20,
     growth |-> 10, macro |-> 5, sentiment |-> 5]

\* weights of line 1032, in hundredths
Weights ==
    [technical |-> 20, fundamental |-> 25, momentum |-> 15, value |-> 20,
     growth |-> 10, macro |-> 5, sentiment |-> 5]

RECURSIVE WeightedSum(_, _)
WeightedSum(scores, keys) ==
    IF keys = {} THEN 0
    ELSE LET key == CHOOSE x \in keys : TRUE
         IN  scores[key] * Weights[key] + WeightedSum(scores, keys \ {key})

\* sum(scores[key] * weights.get(key, 0) for key in scores if key in weights),
\* in 1/(100 * ScoreDen)
OverallScore(scores) == WeightedSum(scores, DOMAIN scores \cap DOMAIN Weights)

\* a threshold that the score has to exceed
AtLeastExclusive(overall_score, t) == overall_score > t * 100 * ScoreDen

\* the threshold t of lines 1043-1081 in the unit of the overall score
AtLeast(overall_score, t) == overall_score >= t * 100 * ScoreDen

\* round(overall_score, 1), in tenths
RoundOverall(overall_score) == RoundHalfEven(overall_score, 10 * ScoreDen)

\* lines 1042-1067
Rating(overall_score) ==
    IF AtLeast(overall_score, 75)
    THEN [overallRating |-> "STRONG BUY", investmentRecommendation |-> "BUY",
          longTermOutlook |-> "VERY POSITIVE", riskLevel |-> "LOW-MEDIUM"]
    ELSE IF AtLeast(overall_score, 65)
    THEN [overallRating |-> "BUY", investmentRecommendation |-> "BUY",
          longTermOutlook |-> "POSITIVE", riskLevel |-> "MEDIUM"]
    ELSE IF AtLeast(overall_score, 55)
    THEN [overallRating |-> "HOLD", investmentRecommendation |-> "HOLD",
          longTermOutlook |-> "NEUTRAL", riskLevel |-> "MEDIUM"]
    ELSE IF AtLeast(overall_score, 45)
    THEN [overallRating |-> "WEAK HOLD", investmentRecommendation |-> "HOLD",
          longTermOutlook |-> "CAUTIOUS", riskLevel |-> "MEDIUM-HIGH"]
    ELSE [overallRating |-> "SELL", investmentRecommendation |-> "SELL",
          longTermOutlook |-> "NEGATIVE", riskLevel |-> "HIGH"]

\* the multiplier of lines 1074-1081, in hundredths
TargetMultiplier(overall_score) ==
    IF AtLeast(overall_score, 65) THEN 115
    ELSE IF AtLeast(overall_score, 55) THEN 105
    ELSE IF AtLeast(overall_score, 45) THEN 95
    ELSE 85

\* lines 1069-1081: the price target in cents, None when neither price is known
PriceTarget(target_mean, current_price, overall_score) ==
    IF IsNum(target_mean) /\ target_mean.v > 0 THEN Num(target_mean.v)
    ELSE IF IsNum(current_price) /\ current_price.v > 0
    THEN Num(RoundHalfEven(current_price.v * TargetMultiplier(overall_score), 100))
    ELSE None

---------------------------------------------------------------------------
(* list(set(xs))[:n].  The iteration order of a set of str depends on the  *)
(* per-process salt of str hashes (PYTHONHASHSEED); the salt is hashseed   *)
(* and the order it induces is a rotation of the distinct elements.        *)

RECURSIVE Distinct(_, _)
Distinct(xs, seen) ==
    IF xs = <<>> THEN <<>>
    ELSE IF Head(xs) \in seen THEN Distinct(Tail(xs), seen)
    ELSE <<Head(xs)>> \o Distinct(Tail(xs), seen \cup {Head(xs)})

Rotate(xs, n) ==
    IF xs = <<>> THEN xs
    ELSE LET k == n % Len(xs)
         IN  SubSeq(xs, k + 1, Len(xs)) \o SubSeq(xs, 1, k)

Take(xs, n) == SubSeq(xs, 1, Min(n, Len(xs)))

SetOrder(xs, seed) == Rotate(Distinct(xs, {}), seed)

---------------------------------------------------------------------------
(* StockInfoAPI.generate_ai_analysis *)

\* [s for s in signals if any(x in s.lower() for x in
\*     ['p/e', 'roe', 'debt', 'margin', 'revenue', 'earnings'])]: the signals
\* of the scorer whose text contains one of the keywords
FundamentalKeywordSignals ==
    {"P/E ratio in reasonable range",
     "Low P/E ratio suggests undervaluation",
     "High P/E ratio suggests overvaluation",
     "Strong profit margins indicate efficient operations",
     "Low debt-to-equity ratio indicates financial stability",
     "Strong revenue growth indicates expanding business",
     "Strong earnings growth shows profitability improvement",
     "Forward P/E lower than trailing - earnings expected to grow"}

Unpopulated == [populated |-> FALSE]

\* the dictionary of lines 497-526
InitialAnalysis ==
    [overallRating |-> "NEUTRAL",
     investmentRecommendation |-> "HOLD",
     longTermOutlook |-> "MODERATE",
     riskLevel |-> "MEDIUM",
     confidence |-> 0,
     scores |-> Unpopulated,
     technicalSignals |-> <<>>,
     fundamentalSignals |-> <<>>,
     riskFactors |-> <<>>,
     opportunities |-> <<>>,
     summary |-> "",
     priceTarget |-> None,
     timeHorizon |-> "12-24 months",
     dcfValuation |-> Unpopulated,
     relativeValuation |-> Unpopulated,
     macroAnalysis |-> Unpopulated,
     sentimentAnalysis |-> Unpopulated,
     detailedReasoning |->
        [executiveSummary |-> "",
         technicalAnalysis |-> Unpopulated,
         fundamentalAnalysis |-> Unpopulated,
         valuationAnalysis |-> Unpopulated,
         macroEconomicFactors |-> Unpopulated,
         sentimentFactors |-> Unpopulated,
         riskAssessment |-> Unpopulated,
         investmentThesis |-> "",
         conclusion |-> ""]]

\* an except clause that notes the error and leaves confidence as the failed
\* run wrote it
ExceptFallbackKeepsConfidence(d) ==
    [d EXCEPT
        !.summary = "Analysis generated with some limitations. Error: ",
        !.detailedReasoning.executiveSummary = "Analysis encountered limitations: "]

\* the except clause of lines 1358-1361 applied to the dictionary as the
\* failed run left it
ExceptFallback(d) ==
    [d EXCEPT
        !.summary = "Analysis generated with some limitations. Error: ",
        !.confidence = 500,
        !.detailedReasoning.executiveSummary = "Analysis encountered limitations: "]

\* lines 938-948: the arguments of the DCF, rates in 1/RateScale
GrowthVal(x) == IF IsNum(x) THEN x.v ELSE 50

BetaVal(info) == IF IsNum(Get(info, "beta", None)) THEN Get(info, "beta", None).v ELSE 100

DiscountRate(info) == 300 + 7 * BetaVal(info)

GrowthRate(info) ==
    Min(Max(5 * (GrowthVal(Get(info, "revenueGrowth", None))
                 + GrowthVal(Get(info, "earningsQuarterlyGrowth", None))), 200), 1500)

\* lines 950-959
DcfResult(info) ==
    LET free_cash_flow == Get(info, "freeCashflow", None)
        shares_outstanding == Get(info, "sharesOutstanding", None)
    IN  IF IsNum(free_cash_flow) /\ free_cash_flow.v > 0
        THEN CalculateDcf(free_cash_flow, Num(GrowthRate(info)), Num(250),
                          Num(DiscountRate(info)), 5,
                          IF IsNum(shares_outstanding) THEN shares_outstanding ELSE None)
        ELSE DcfUnavailable

\* dcf_result and dcf_result.get('equity_value_per_share')
HasDcfPrice(dcf_result) ==
    dcf_result.kind = "result" /\ dcf_result.has_equity_value_per_share
    /\ dcf_result.equity_value_per_share # 0

\* lines 969-975: the adjustment of value_score by the DCF
DcfAdjustment(dcf_result, current_price) ==
    IF ~(HasDcfPrice(dcf_result) /\ current_price.v > 0) THEN NoPts
    ELSE IF dcf_result.equity_value_per_share * 100 > current_price.v * 115
         THEN Pts(15, 0, <<>>, <<>>, <<"DCF model suggests upside potential">>)
    ELSE IF dcf_result.equity_value_per_share * 100 < current_price.v * 85
         THEN Pts(-10, 0, <<>>, <<"DCF model suggests downside risk">>, <<>>)
    ELSE NoPts

\* lines 982-987
RelativeAdjustment(relative_val) ==
    IF relative_val.overall_valuation = "CHEAP"
    THEN Pts(10, 0, <<>>, <<>>,
             <<"Relative valuation suggests stock is trading at a discount to market">>)
    ELSE IF relative_val.overall_valuation = "EXPENSIVE"
    THEN Pts(-10, 0, <<>>,
             <<"Relative valuation suggests stock is trading at a premium to market">>, <<>>)
    ELSE NoPts

\* macro_analysis.get(key) of the dictionary, {} when ticker_obj is None
MacroGet(macro_analysis, key) ==
    IF macro_analysis.populated THEN macro_analysis[key] ELSE "None"

\* lines 996-1008
MacroAdjustment(macro_analysis) ==
    Acc(IF MacroGet(macro_analysis, "sector_outlook") = "POSITIVE"
        THEN Pts(5, 0, <<>>, <<>>, <<"sector shows positive outlook">>)
        ELSE IF MacroGet(macro_analysis, "sector_outlook") \in {"CAUTIOUS", "VOLATILE"}
        THEN Pts(-5, 0, <<>>, <<"sector faces headwinds">>, <<>>)
        ELSE NoPts,
        IF MacroGet(macro_analysis, "recession_resilience") = "HIGH"
        THEN Pts(3, 0, <<>>, <<>>,
                 <<"Company shows defensive characteristics in economic downturns">>)
        ELSE IF MacroGet(macro_analysis, "recession_resilience") = "LOW"
        THEN Pts(-3, 0, <<>>, <<"Company is vulnerable to economic downturns">>, <<>>)
        ELSE NoPts)

\* lines 1019-1024
SentimentAdjustment(sentiment) ==
    IF sentiment.overall_sentiment = "BULLISH"
    THEN Pts(10, 0, <<>>, <<>>, <<"Market sentiment is bullish">>)
    ELSE IF sentiment.overall_sentiment = "BEARISH"
    THEN Pts(-10, 0, <<>>, <<"Market sentiment is bearish">>, <<>>)
    ELSE NoPts

\* lines 989-993: {} when ticker_obj is None
MacroAnalysis(ticker_obj, stock_data) ==
    IF ticker_obj.isNone THEN Unpopulated
    ELSE [populated |-> TRUE] @@ AnalyzeMacroEnvironment(ticker_obj, stock_data.sector, stock_data.industry)

\* lines 1026-1029 with scores['technical'] and scores['growth'] of lines 663, 935;
\* f holds the locals *_score and *_max
FinalScores(f) ==
    [technical |-> ScoreOf(f.tech_score, f.tech_max),
     fundamental |-> Clamp(ScoreOf(f.fund_score, f.fund_max)),
     momentum |-> Clamp(ScoreOf(f.momentum_score, f.momentum_max)),
     value |-> Clamp(ScoreOf(f.value_score, f.value_max)),
     growth |-> ScoreOf(f.growth_score, f.growth_max)]

\* lines 1264-1296
RiskAssessment(d, scores, risks, macro_analysis, beta_val) ==
    LET risk_score ==
              (IF Len(risks) > 5 THEN 20 ELSE IF Len(risks) > 3 THEN 10 ELSE 0)
            + (IF scores.fundamental < 40 * ScoreDen THEN 15 ELSE 0)
            + (IF scores.technical < 40 * ScoreDen THEN 10 ELSE 0)
            + (IF MacroGet(macro_analysis, "recession_resilience") = "LOW" THEN 10 ELSE 0)
            + (IF beta_val > 150 THEN 10 ELSE 0)
    IN  [populated |-> TRUE,
         riskLevel |-> d.riskLevel,
         riskScore |-> Min(100, risk_score),
         keyRisks |-> Take(risks, 10)]

---------------------------------------------------------------------------
(* Inputs of generate_ai_analysis.  A request is one of the base bundles   *)
(* below in one of the contexts, with at most one field of stock_data or   *)
(* of info replaced by a value of that field's domain.                     *)

StockDomain ==
    [currentPrice |-> {Missing, NA, None, Num(0), Num(10000), Num(15000), Num(20000)},
     rsi |-> {NA, Num(0), Num(2500), Num(3000), Num(5000), Num(7000), Num(8500)},
     priceVsSMA200 |-> {Missing, Num(0), Num(550), Num(-550)},
     priceVsSMA50 |-> {Missing, Num(0), Num(550), Num(-550)},
     priceVsSMA20 |-> {Missing, Num(0), Num(550), Num(-550)},
     macd |-> {NA, Num(0), Num(12000), Num(-12000)},
     macdSignal |-> {NA, Num(0), Num(5000)},
     macdHistogram |-> {NA, Num(0), Num(100), Num(-100)},
     bbPercentB |-> {Missing, Num(1000), Num(2000), Num(5000), Num(8000), Num(9500)},
     stochK |-> {NA, Num(1000), Num(5000), Num(9000)},
     stochD |-> {NA, Num(3000), Num(7000)},
     volumeRatio |-> {Missing, Num(5000), Num(10000), Num(15000)},
     momentum |-> {NA, Num(0), Num(150), Num(-150)},
     oneYearReturn |-> {Missing, NA, BadPct, Pct(2500), Pct(2000), Pct(500), Pct(0), Pct(-1000)},
     fiveYearReturn |-> {Missing, BadPct, Pct(6000), Pct(5000), Pct(3000), Pct(1000), Pct(-500)}]

InfoDomain ==
    [trailingPE |-> {Missing, None, Num(-5000), Num(8000), Num(10000), Num(18000),
                     Num(25000), Num(28000), Num(30000), Num(40000)},
     forwardPE |-> {Missing, Num(7000), Num(50000)},
     pegRatio |-> {Missing, Num(-1000), Num(500), Num(1000), Num(1300), Num(2500)},
     priceToBook |-> {Missing, Num(500), Num(1500), Num(2500), Num(6000)},
     profitMargins |-> {Missing, Num(200), Num(100), Num(0), Num(-100)},
     returnOnEquity |-> {Missing, Num(200), Num(100), Num(0), Num(-100)},
     debtToEquity |-> {Missing, Num(500), Num(1500), Num(3000)},
     currentRatio |-> {Missing, Num(800), Num(1200), Num(2000), Num(4000)},
     revenueGrowth |-> {Missing, Num(250), Num(150), Num(50), Num(-100)},
     earningsQuarterlyGrowth |-> {Missing, Num(300), Num(200), Num(50), Num(-100)},
     marketCap |-> {Missing, Num(5000), Num(50000)},
     beta |-> {Missing, Num(-100), Num(50), Num(100), Num(140), Num(160)},
     targetMeanPrice |-> {Missing, Num(0), Num(9000), Num(10500), Num(11500), Num(13000)},
     freeCashflow |-> {Missing, Num(-100000), Num(100000), Num(1000000)},
     sharesOutstanding |-> {Missing, Num(0), Num(100), Num(1000)},
     priceToSalesTrailing12Months |-> {Missing, Num(1000), Num(2500), Num(8000)},
     averageVolume |-> {Missing, Num(0), Num(1000)},
     volume |-> {Missing, Num(500), Num(1000), Num(2000)},
     heldPercentInstitutions |-> {Missing, Num(650), Num(50000), Num(75000)}]

EmptyStockData ==
    [f \in DOMAIN StockDomain |-> Missing]

EmptyInfo ==
    [f \in DOMAIN InfoDomain |-> Missing]

BullStockData ==
    [currentPrice |-> Num(10000), rsi |-> Num(2500),
     priceVsSMA200 |-> Num(550), priceVsSMA50 |-> Num(550), priceVsSMA20 |-> Num(550),
     macd |-> Num(12000), macdSignal |-> Num(5000), macdHistogram |-> Num(100),
     bbPercentB |-> Num(5000), stochK |-> Num(5000), stochD |-> Num(3000),
     volumeRatio |-> Num(15000), momentum |-> Num(150),
     oneYearReturn |-> Pct(2500), fiveYearReturn |-> Pct(6000)]

BullInfo ==
    [trailingPE |-> Num(8000), forwardPE |-> Num(7000), pegRatio |-> Num(500),
     priceToBook |-> Num(500), profitMargins |-> Num(200), returnOnEquity |-> Num(200),
     debtToEquity |-> Num(500), currentRatio |-> Num(2000), revenueGrowth |-> Num(250),
     earningsQuarterlyGrowth |-> Num(300), marketCap |-> Num(50000), beta |-> Num(100),
     targetMeanPrice |-> Num(13000), freeCashflow |-> Num(100000),
     sharesOutstanding |-> Num(100), priceToSalesTrailing12Months |-> Num(1000),
     averageVolume |-> Num(1000), volume |-> Num(2000),
     heldPercentInstitutions |-> Num(75000)]

BearStockData ==
    [currentPrice |-> Num(10000), rsi |-> Num(8500),
     priceVsSMA200 |-> Num(-550), priceVsSMA50 |-> Num(-550), priceVsSMA20 |-> Num(-550),
     macd |-> Num(-12000), macdSignal |-> Num(5000), macdHistogram |-> Num(-100),
     bbPercentB |-> Num(9500), stochK |-> Num(9000), stochD |-> Num(7000),
     volumeRatio |-> Num(5000), momentum |-> Num(-150),
     oneYearReturn |-> Pct(-1000), fiveYearReturn |-> Pct(-500)]

BearInfo ==
    [trailingPE |-> Num(40000), forwardPE |-> Num(50000), pegRatio |-> Num(2500),
     priceToBook |-> Num(6000), profitMargins |-> Num(-100), returnOnEquity |-> Num(-100),
     debtToEquity |-> Num(3000), currentRatio |-> Num(800), revenueGrowth |-> Num(-100),
     earningsQuarterlyGrowth |-> Num(-100), marketCap |-> Num(5000), beta |-> Num(160),
     targetMeanPrice |-> Missing, freeCashflow |-> Num(100000),
     sharesOutstanding |-> Num(1000), priceToSalesTrailing12Months |-> Num(8000),
     averageVolume |-> Num(1000), volume |-> Num(500),
     heldPercentInstitutions |-> Num(650)]

Bases ==
    {[stock_data |-> EmptyStockData, info |-> EmptyInfo],
     [stock_data |-> BullStockData, info |-> BullInfo],
     [stock_data |-> BearStockData, info |-> BearInfo]}

\* bundles whose overall score is exactly a rating threshold when nothing
\* adjusts the scores: 0.20*90 + 0.25*40 + 0.15*80 + 0.20*50 + 0.10*50 = 55
\* and 0.20*50 + 0.25*32 + 0.15*80 + 0.20*50 + 0.10*50 = 45
ThresholdBases ==
    {[stock_data |-> [BullStockData EXCEPT !.macdHistogram = Num(-100)],
      info |-> [EmptyInfo EXCEPT !.profitMargins = Num(200), !.returnOnEquity = Num(200),
                                 !.debtToEquity = Num(500), !.currentRatio = Num(2000)]],
     [stock_data |-> [BearStockData EXCEPT !.rsi = Num(5000), !.bbPercentB = Num(5000),
                                           !.stochK = Num(5000),
                                           !.volumeRatio = Num(15000),
                                           !.oneYearReturn = Pct(2500),
                                           !.fiveYearReturn = Pct(6000)],
      info |-> [EmptyInfo EXCEPT !.profitMargins = Num(200), !.returnOnEquity = Num(200),
                                 !.debtToEquity = Num(500)]]}

\* a Close column of n points moving linearly from first to last (cents)
CloseSeries(n, first, last) ==
    [i \in 1..n |-> IF n = 1 THEN last ELSE first + ((last - first) * (i - 1)) \div (n - 1)]

NoTicker == [isNone |-> TRUE, info_raises |-> FALSE, info |-> [beta |-> Missing]]

Ticker(info_raises, beta) == [isNone |-> FALSE, info_raises |-> info_raises, info |-> [beta |-> beta]]

NoHistory == [isNone |-> TRUE, Close |-> <<>>]

History(close) == [isNone |-> FALSE, Close |-> close]

Contexts ==
    {[sector |-> {}, industry |-> {}, recommendationKey |-> "",
      hist_data |-> NoHistory, ticker_obj |-> NoTicker],
     [sector |-> {"technology"}, industry |-> {"software"}, recommendationKey |-> "buy",
      hist_data |-> History(CloseSeries(20, 10000, 11500)),
      ticker_obj |-> Ticker(FALSE, Num(140))],
     [sector |-> {"consumer", "discretionary"}, industry |-> {}, recommendationKey |-> "sell",
      hist_data |-> History(CloseSeries(25, 10000, 8500)),
      ticker_obj |-> Ticker(TRUE, Missing)],
     [sector |-> {"utilities"}, industry |-> {}, recommendationKey |-> "hold",
      hist_data |-> History(CloseSeries(5, 10000, 10100)),
      ticker_obj |-> Ticker(FALSE, Missing)]}

StockVariants(stock_data) ==
    {stock_data} \cup
    UNION {{[stock_data EXCEPT ![f] = v] : v \in StockDomain[f]} : f \in DOMAIN StockDomain}

InfoVariants(info) ==
    {info} \cup
    UNION {{[info EXCEPT ![f] = v] : v \in InfoDomain[f]} : f \in DOMAIN InfoDomain}

Request(stock_data, info, c) ==
    [stock_data |-> [sector |-> c.sector, industry |-> c.industry] @@ stock_data,
     info |-> [recommendationKey |-> c.recommendationKey] @@ info,
     hist_data |-> c.hist_data,
     ticker_obj |-> c.ticker_obj]

Inputs ==
    UNION {{Request(sd, b.info, c) : sd \in StockVariants(b.stock_data)}
           \cup {Request(b.stock_data, i, c) : i \in InfoVariants(b.info)}
           : <<b, c>> \in Bases \X Contexts}
    \cup {Request(b.stock_data, b.info, c) : <<b, c>> \in ThresholdBases \X Contexts}

---------------------------------------------------------------------------
(* The service.  fn is the API function of the latest call, args its       *)
(* arguments and ret what it returned to the caller.  A call of            *)
(* generate_ai_analysis runs through the sections of its try block: pc is  *)
(* the section about to run, analysis the dictionary under construction    *)
(* and frame the other locals.  hashseed is the salt of str hashes of the  *)
(* running interpreter process.                                            *)
(*                                                                         *)
(* The statements that can raise on the modelled inputs are                *)
(*   line 876   current_price > 0 with current_price None   (TypeError)    *)
(*   line 952   calculate_dcf dividing by zero       (ZeroDivisionError)   *)
(*   line 966   current_price > 0 with current_price None   (TypeError)    *)
(*   line 1072  current_price > 0 with current_price None   (TypeError)    *)
(*   line 1342  ... / current_price with current_price 0                   *)
(*                                                   (ZeroDivisionError)   *)
(* frame.raised is the line that raised, 0 while nothing has.              *)
(*                                                                         *)
(* io is the list of the accesses of the data provider made for the        *)
(* request being served, outer the locals of the call of get_stock_info    *)
(* that is on the stack (NoOuter when generate_ai_analysis was called      *)
(* directly), and suspended the contexts of the requests that other        *)
(* threads of the server are serving.                                      *)

MaxSeed == 1

Seeds == 0..MaxSeed

NoReturn == [returned |-> FALSE]

Returned(value) == [returned |-> TRUE, value |-> value]

\* one access of the data provider: op is the attribute or method of the
\* yfinance Ticker, outcome is "raises", "empty" or "data", core whether
\* generate_ai_analysis was running
ProviderAccess(op, outcome, core) == [op |-> op, outcome |-> outcome, core |-> core]

\* line 349 (called from line 992): hasattr(ticker_obj, 'info') and
\* ticker_obj.info fetch the fundamentals of the Ticker once
MacroProviderAccess(ticker_obj, core) ==
    IF ticker_obj.isNone THEN <<>>
    ELSE <<ProviderAccess("info", IF ticker_obj.info_raises THEN "raises" ELSE "data", core)>>

\* no call of get_stock_info is on the stack
NoOuter == [active |-> FALSE]

\* the locals of generate_ai_analysis before line 529
EmptyFrame ==
    [raised |-> 0,
     current_price |-> None,
     tech_score |-> 0, tech_max |-> 0,
     fund_score |-> 0, fund_max |-> 0,
     momentum_score |-> 0, momentum_max |-> 0,
     value_score |-> 0, value_max |-> 0,
     growth_score |-> 0, growth_max |-> 0,
     signals |-> <<>>, risks |-> <<>>, opportunities |-> <<>>,
     dcf_result |-> DcfUnavailable,
     relative_val |-> Unpopulated,
     macro_analysis |-> Unpopulated,
     sentiment |-> Unpopulated,
     scores |-> [technical |-> 0, fundamental |-> 0, momentum |-> 0,
                 value |-> 0, growth |-> 0],
     overall_score |-> 0]

Init ==
    /\ fn = "none"
    /\ pc = "idle"
    /\ args = <<>>
    /\ analysis = InitialAnalysis
    /\ frame = EmptyFrame
    /\ ret = NoReturn
    /\ hashseed \in Seeds
    /\ io = <<>>
    /\ outer = NoOuter
    /\ suspended = <<>>

\* the call, were it to take currentPrice out of stock_data as it reads it
\* (stock_data.pop('currentPrice', 0) for line 534)
EnterPoppingPrice(a) ==
    /\ fn' = "generate_ai_analysis"
    /\ pc' = "scoring"
    /\ args' = [a EXCEPT !.stock_data.currentPrice = Missing]
    /\ analysis' = InitialAnalysis
    /\ frame' = [EmptyFrame EXCEPT !.current_price = CurrentPrice(a.stock_data)]
    /\ io' = IF outer.active THEN io ELSE <<>>
    /\ UNCHANGED <<ret, hashseed, outer, suspended>>

\* lines 494-536: the call is entered, analysis is initialised and
\* current_price is read
Enter(a) ==
    /\ fn' = "generate_ai_analysis"
    /\ pc' = "scoring"
    /\ args' = a
    /\ analysis' = InitialAnalysis
    /\ frame' = [EmptyFrame EXCEPT !.current_price = CurrentPrice(a.stock_data)]
    /\ io' = IF outer.active THEN io ELSE <<>>
    /\ UNCHANGED <<ret, hashseed, outer, suspended>>

\* A call with new arguments.  What a call leaves behind depends on its
\* arguments and on hashseed only, so new arguments are drawn in the first
\* call and a later call repeats the latest request.
generate_ai_analysis ==
    /\ pc = "idle"
    /\ \E a \in Inputs : Enter(a)

\* the except clause is entered from the statement at the given line
Raise(line) ==
    /\ pc' = "except"
    /\ frame' = [frame EXCEPT !.raised = line]
    /\ UNCHANGED <<fn, args, analysis, ret, hashseed, io, outer, suspended>>

\* lines 538-935: the technical, fundamental, momentum, value and growth
\* sections
ScoreSections ==
    /\ pc = "scoring"
    /\ IF TargetTestRaises(Get(args.info, "targetMeanPrice", None), frame.current_price)
       THEN Raise(876)
       ELSE LET tech == TechnicalScoring(args.stock_data)
                fund == FundamentalScoring(args.info)
                mom == MomentumScoring(args.stock_data)
                val == ValueScoring(args.info, frame.current_price)
                grow == GrowthScoring(args.info)
                all == AccAll(<<tech, fund, mom, val, grow>>)
            IN  /\ pc' = "valuation"
                /\ frame' = [frame EXCEPT
                      !.tech_score = tech.score, !.tech_max = tech.max,
                      !.fund_score = fund.score, !.fund_max = fund.max,
                      !.momentum_score = mom.score, !.momentum_max = mom.max,
                      !.value_score = val.score, !.value_max = val.max,
                      !.growth_score = grow.score, !.growth_max = grow.max,
                      !.signals = all.signals,
                      !.risks = all.risks,
                      !.opportunities = all.opportunities]
                /\ UNCHANGED <<fn, args, analysis, ret, hashseed, io, outer, suspended>>

\* lines 961-977: analysis['dcfValuation']
DcfValuation(dcf_result, current_price) ==
    IF HasDcfPrice(dcf_result)
    THEN [populated |-> TRUE,
          intrinsicValue |-> dcf_result.equity_value_per_share,
          currentPrice |-> current_price,
          assumptions |-> dcf_result.assumptions]
    ELSE [populated |-> TRUE, status |-> "Insufficient data for DCF calculation"]

\* lines 937-1024: the DCF, the relative valuation, the macroeconomic and the
\* sentiment analysis, and the adjustments they make to the scores
ValuationSections ==
    /\ pc = "valuation"
    /\ LET dcf_result == DcfResult(args.info)
       IN  IF dcf_result.kind = "ZeroDivisionError" THEN Raise(952)
           ELSE IF HasDcfPrice(dcf_result) /\ ~IsNum(frame.current_price) THEN Raise(966)
           ELSE LET relative_val == CalculateRelativeValuation(args.info)
                    macro_analysis == MacroAnalysis(args.ticker_obj, args.stock_data)
                    sentiment == AnalyzeSentiment(args.info, args.hist_data)
                    dcf_adj == DcfAdjustment(dcf_result, frame.current_price)
                    rel_adj == RelativeAdjustment(relative_val)
                    macro_adj == MacroAdjustment(macro_analysis)
                    sent_adj == SentimentAdjustment(sentiment)
                    adj == AccAll(<<dcf_adj, rel_adj, macro_adj, sent_adj>>)
                IN  /\ pc' = "overall"
                    /\ analysis' = [analysis EXCEPT
                          !.dcfValuation = DcfValuation(dcf_result, frame.current_price),
                          !.relativeValuation = [populated |-> TRUE] @@ relative_val,
                          !.macroAnalysis = macro_analysis,
                          !.sentimentAnalysis = [populated |-> TRUE] @@ sentiment]
                    /\ frame' = [frame EXCEPT
                          !.dcf_result = dcf_result,
                          !.relative_val = [populated |-> TRUE] @@ relative_val,
                          !.macro_analysis = macro_analysis,
                          !.sentiment = [populated |-> TRUE] @@ sentiment,
                          !.value_score = @ + dcf_adj.score + rel_adj.score,
                          !.fund_score = @ + macro_adj.score,
                          !.momentum_score = @ + sent_adj.score,
                          !.risks = @ \o adj.risks,
                          !.opportunities = @ \o adj.opportunities]
                    /\ io' = io \o MacroProviderAccess(args.ticker_obj, TRUE)
                    /\ UNCHANGED <<fn, args, ret, hashseed, outer, suspended>>

\* lines 1110-1321: analysis['detailedReasoning'] once the summary is written;
\* d is the dictionary and f the locals at that point
DetailedReasoning(d, f, beta_val) ==
    [executiveSummary |-> "After comprehensive analysis of ",
     technicalAnalysis |->
        [populated |-> TRUE,
         score |-> RoundScore(f.scores.technical),
         trend |-> IF f.scores.technical > 60 * ScoreDen THEN "BULLISH"
                   ELSE IF f.scores.technical < 40 * ScoreDen THEN "BEARISH"
                   ELSE "NEUTRAL"],
     fundamentalAnalysis |->
        [populated |-> TRUE,
         score |-> RoundScore(f.scores.fundamental),
         financialHealth |-> IF f.scores.fundamental > 65 * ScoreDen THEN "STRONG"
                             ELSE IF f.scores.fundamental < 45 * ScoreDen THEN "WEAK"
                             ELSE "MODERATE"],
     valuationAnalysis |->
        [populated |-> TRUE,
         dcfValue |-> IF f.dcf_result.kind = "result"
                         /\ f.dcf_result.has_equity_value_per_share
                      THEN Num(f.dcf_result.equity_value_per_share) ELSE None,
         relativeValuation |-> f.relative_val.overall_valuation,
         valueScore |-> RoundScore(f.scores.value)],
     macroEconomicFactors |->
        [populated |-> TRUE,
         sectorOutlook |-> IF f.macro_analysis.populated
                           THEN f.macro_analysis.sector_outlook ELSE "N/A",
         economicPressures |-> IF f.macro_analysis.populated
                               THEN f.macro_analysis.economic_pressures ELSE <<>>,
         interestRateSensitivity |-> IF f.macro_analysis.populated
                                     THEN f.macro_analysis.interest_rate_sensitivity
                                     ELSE "N/A",
         recessionResilience |-> IF f.macro_analysis.populated
                                 THEN f.macro_analysis.recession_resilience ELSE "N/A"],
     sentimentFactors |->
        [populated |-> TRUE,
         overallSentiment |-> f.sentiment.overall_sentiment,
         analystSentiment |-> f.sentiment.analyst_sentiment,
         momentumSentiment |-> f.sentiment.momentum_sentiment,
         indicators |-> f.sentiment.indicators],
     riskAssessment |-> RiskAssessment(d, f.scores, f.risks, f.macro_analysis, beta_val),
     investmentThesis |-> "presents ",
     conclusion |-> ""]

\* lines 1026-1067: the sub-scores, the overall score, the signal lists and
\* the rating
OverallScoring ==
    /\ pc = "overall"
    /\ LET scores == FinalScores(frame)
           overall_score == OverallScore(scores)
           rating == Rating(overall_score)
       IN  /\ frame' = [frame EXCEPT !.scores = scores, !.overall_score = overall_score]
           /\ analysis' = [analysis EXCEPT
                 !.confidence = RoundOverall(overall_score),
                 !.scores = [populated |-> TRUE]
                            @@ [key \in DOMAIN scores |-> RoundScore(scores[key])],
                 !.technicalSignals = Take(frame.signals, 10),
                 !.fundamentalSignals =
                     SelectSeq(frame.signals, LAMBDA s : s \in FundamentalKeywordSignals),
                 !.riskFactors = Take(SetOrder(frame.risks, hashseed), 8),
                 !.opportunities = Take(SetOrder(frame.opportunities, hashseed), 8),
                 !.overallRating = rating.overallRating,
                 !.investmentRecommendation = rating.investmentRecommendation,
                 !.longTermOutlook = rating.longTermOutlook,
                 !.riskLevel = rating.riskLevel]
    /\ pc' = "target"
    /\ UNCHANGED <<fn, args, ret, hashseed, io, outer, suspended>>

\* lines 1069-1321: the price target, the summary and the detailed reasoning
TargetAndReasoning ==
    /\ pc = "target"
    /\ LET target_mean == Get(args.info, "targetMeanPrice", None)
       IN  IF ~(IsNum(target_mean) /\ target_mean.v > 0) /\ ~IsNum(frame.current_price)
           THEN Raise(1072)
           ELSE /\ pc' = "conclusion"
                /\ analysis' = [analysis EXCEPT
                      !.priceTarget = PriceTarget(target_mean, frame.current_price,
                                                  frame.overall_score),
                      !.summary = "shows an overall investment score of ",
                      !.detailedReasoning =
                          DetailedReasoning(analysis, frame, BetaVal(args.info))]
                /\ UNCHANGED <<fn, args, frame, ret, hashseed, io, outer, suspended>>

\* lines 1323-1356: the conclusion
Conclusion ==
    /\ pc = "conclusion"
    /\ IF Truthy(analysis.priceTarget) /\ frame.current_price.v = 0
       THEN Raise(1342)
       ELSE /\ pc' = "return"
            /\ analysis' = [analysis EXCEPT !.detailedReasoning.conclusion = "In conclusion, "]
            /\ UNCHANGED <<fn, args, frame, ret, hashseed, io, outer, suspended>>

\* lines 1358-1361: except Exception
ExceptClause ==
    /\ pc = "except"
    /\ pc' = "return"
    /\ analysis' = ExceptFallback(analysis)
    /\ UNCHANGED <<fn, args, frame, ret, hashseed, io, outer, suspended>>

\* line 1363: return analysis
Return ==
    /\ pc = "return"
    /\ pc' = IF outer.active THEN "attach" ELSE "done"
    /\ ret' = Returned(analysis)
    /\ UNCHANGED <<fn, args, analysis, frame, hashseed, io, outer, suspended>>

\* the same request is made again
RepeatRequest ==
    /\ pc = "done"
    /\ fn = "generate_ai_analysis"
    /\ Enter(args)

\* the server process is started again (lines 1690-1695): a new salt
ProcessRestart ==
    /\ pc = "done"
    /\ hashseed' \in Seeds \ {hashseed}
    /\ UNCHANGED <<fn, pc, args, analysis, frame, ret, io, outer, suspended>>

Next ==
    \/ generate_ai_analysis
    \/ ScoreSections
    \/ ValuationSections
    \/ OverallScoring
    \/ TargetAndReasoning
    \/ Conclusion
    \/ ExceptClause
    \/ Return
    \/ RepeatRequest
    \/ ProcessRestart

Spec == Init /\ [][Next]_vars

---------------------------------------------------------------------------
(* Properties of generate_ai_analysis *)

C2_NoPartialResult ==
    (fn = "generate_ai_analysis" /\ pc = "done") =>
        IF frame.raised = 0
        THEN /\ ret.value.scores.populated
             /\ ret.value.dcfValuation.populated
             /\ ret.value.detailedReasoning.riskAssessment.populated
             /\ ret.value.detailedReasoning.conclusion # ""
        ELSE ret.value = ExceptFallback(InitialAnalysis)

\* C3: each of the five sub-scores of a returned dictionary is within
\* [0, 100], in the exact value the run computed and as rounded into
\* analysis['scores'] (tenths).
C3_SubScoresInRange ==
    (fn = "generate_ai_analysis" /\ pc = "done" /\ ret.value.scores.populated) =>
        \A key \in {"technical", "fundamental", "momentum", "value", "growth"} :
            /\ 0 <= frame.scores[key] /\ frame.scores[key] <= 100 * ScoreDen
            /\ 0 <= ret.value.scores[key] /\ ret.value.scores[key] <= 1000

\* a completed call in which the value points exceeded the points possible
\* and the momentum points were negative before the clamp
C3_Witness ==
    /\ fn = "generate_ai_analysis"
    /\ pc = "done"
    /\ frame.raised = 0
    /\ frame.value_max > 0
    /\ frame.value_score > frame.value_max
    /\ ret.value.scores.value = 1000

\* C4: dynamic denominator.  When the sections have been scored, the points
\* possible of the technical, fundamental and momentum sub-scores count only
\* the factors for which the bundle holds data (a factor counts as having
\* data as soon as one of its fields is a number, or a string with a '%'
\* for the returns), so that missing data never lowers a sub-score.
C4_DynamicDenominator ==
    (fn = "generate_ai_analysis" /\ pc = "valuation") =>
        LET sd == args.stock_data
            info == args.info
            num(d, fs) == \E f \in fs : IsNum(d[f])
            pct(d, f) == d[f].k \in {"pct", "badpct"}
            pts(has, m) == IF has THEN m ELSE 0
        IN  /\ frame.tech_max <=
                  pts(num(sd, {"rsi"}), 20)
                + pts(num(sd, {"priceVsSMA200", "priceVsSMA50", "priceVsSMA20"}), 25)
                + pts(num(sd, {"macd", "macdSignal", "macdHistogram"}), 15)
                + pts(num(sd, {"bbPercentB"}), 10)
                + pts(num(sd, {"stochK", "stochD"}), 10)
                + pts(num(sd, {"volumeRatio"}), 10)
                + pts(num(sd, {"momentum"}), 10)
            /\ frame.fund_max <=
                  pts(num(info, {"trailingPE"}), 20)
                + pts(num(info, {"pegRatio"}), 15)
                + pts(num(info, {"profitMargins", "returnOnEquity"}), 20)
                + pts(num(info, {"debtToEquity"}), 10)
                + pts(num(info, {"currentRatio"}), 10)
                + pts(num(info, {"revenueGrowth", "earningsQuarterlyGrowth"}), 15)
                + pts(num(info, {"marketCap", "beta"}), 10)
            /\ frame.momentum_max <=
                  pts(pct(sd, "oneYearReturn"), 30) + pts(pct(sd, "fiveYearReturn"), 20)

\* C5: in a completed run, a sub-score none of whose factors has data is
\* exactly 50: technical without a numeric indicator, fundamental without a
\* numeric fundamental, momentum without a return string, value without a
\* numeric ratio or target, growth without a numeric growth figure.
C5_NoDataIsFifty ==
    (fn = "generate_ai_analysis" /\ pc = "done" /\ frame.raised = 0) =>
        LET sd == args.stock_data
            info == args.info
            none(d, fs) == \A f \in fs : ~IsNum(d[f])
        IN  /\ none(sd, {"rsi", "priceVsSMA200", "priceVsSMA50", "priceVsSMA20", "macd",
                         "macdSignal", "macdHistogram", "bbPercentB", "stochK", "stochD",
                         "volumeRatio", "momentum"})
                  => frame.scores.technical = 50 * ScoreDen
            /\ none(info, {"trailingPE", "pegRatio", "profitMargins", "returnOnEquity",
                           "debtToEquity", "currentRatio", "revenueGrowth",
                           "earningsQuarterlyGrowth", "marketCap", "beta"})
                  => frame.scores.fundamental = 50 * ScoreDen
            /\ (sd.oneYearReturn.k \notin {"pct", "badpct"}
                /\ sd.fiveYearReturn.k \notin {"pct", "badpct"})
                  => frame.scores.momentum = 50 * ScoreDen
            /\ none(info, {"trailingPE", "priceToBook", "pegRatio", "targetMeanPrice"})
                  => frame.scores.value = 50 * ScoreDen
            /\ none(info, {"revenueGrowth", "earningsQuarterlyGrowth", "pegRatio",
                           "forwardPE", "trailingPE"})
                  => frame.scores.growth = 50 * ScoreDen

\* C6: the rating written into the dictionary is the one of the overall
\* score with inclusive lower bounds 75, 65, 55 and 45, together with the
\* fixed recommendation, outlook and risk level of that rating.
C6_RatingThresholds ==
    (fn = "generate_ai_analysis" /\ pc \in {"target", "conclusion"}) =>
        LET s == frame.overall_score
            u == 100 * ScoreDen
            tuple == <<analysis.overallRating, analysis.investmentRecommendation,
                       analysis.longTermOutlook, analysis.riskLevel>>
        IN  tuple = IF s >= 75 * u THEN <<"STRONG BUY", "BUY", "VERY POSITIVE", "LOW-MEDIUM">>
                    ELSE IF s >= 65 * u THEN <<"BUY", "BUY", "POSITIVE", "MEDIUM">>
                    ELSE IF s >= 55 * u THEN <<"HOLD", "HOLD", "NEUTRAL", "MEDIUM">>
                    ELSE IF s >= 45 * u THEN <<"WEAK HOLD", "HOLD", "CAUTIOUS", "MEDIUM-HIGH">>
                    ELSE <<"SELL", "SELL", "NEGATIVE", "HIGH">>

\* a run whose overall score is exactly 55.0 and is rated HOLD
C6_Witness ==
    /\ fn = "generate_ai_analysis"
    /\ pc = "target"
    /\ frame.overall_score = 55 * 100 * ScoreDen
    /\ analysis.overallRating = "HOLD"

\* C7: once the overall score is computed it equals 0.20*technical
\* + 0.25*fundamental + 0.15*momentum + 0.20*value + 0.10*growth of the final
\* sub-scores; the scores mapping has exactly these five keys (no 'macro',
\* no 'sentiment'), so the overall score lies in [0, 90].
C7_OverallIsWeightedSum ==
    (fn = "generate_ai_analysis" /\ analysis.scores.populated) =>
        /\ DOMAIN frame.scores = {"technical", "fundamental", "momentum", "value", "growth"}
        /\ DOMAIN analysis.scores \cap {"macro", "sentiment"} = {}
        /\ frame.scores = FinalScores(frame)
        /\ frame.overall_score =
                20 * frame.scores.technical + 25 * frame.scores.fundamental
              + 15 * frame.scores.momentum + 20 * frame.scores.value
              + 10 * frame.scores.growth
        /\ 0 <= frame.overall_score
        /\ frame.overall_score <= 90 * 100 * ScoreDen
        /\ analysis.confidence <= 900

\* a completed run with a positive macro outlook and a bullish sentiment,
\* both in the dictionary, and an overall score above 85
C7_Witness ==
    /\ fn = "generate_ai_analysis"
    /\ pc = "done"
    /\ frame.raised = 0
    /\ analysis.macroAnalysis.populated
    /\ analysis.macroAnalysis.sector_outlook = "POSITIVE"
    /\ analysis.sentimentAnalysis.overall_sentiment = "BULLISH"
    /\ frame.overall_score > 85 * 100 * ScoreDen

\* C8: a call repeated with the same arguments returns the same dictionary
\* as the call before it, in every field and in the order of every list.
C8_Deterministic ==
    [][(fn = "generate_ai_analysis" /\ pc = "return" /\ ret.returned /\ args' = args)
           => ret'.value = ret.value]_vars

---------------------------------------------------------------------------
(* TechnicalAnalysis.  A pandas Series is a sequence of integers (prices   *)
(* in cents, volumes in shares).  A result is None, a number Num(n), NaN,  *)
(* Inf, a dictionary, or Raises when the call ends in an exception.        *)
(* rsi, percent_b, k and d are in 1/100; every other result is in cents,   *)
(* the exponential averages in 1/EmaScale cents; quotients are rounded     *)
(* down to the unit.  Periods and spans are at least 1.                    *)

NaN == [k |-> "nan", v |-> 0]

Inf == [k |-> "inf", v |-> 0]

Raises == [k |-> "raises", v |-> 0]

EmptyDict == [k |-> "dict"]

EmaScale == 10 * 100

\* xs[lo] + ... + xs[hi], by halves
RECURSIVE SumBetween(_, _, _)
SumBetween(xs, lo, hi) ==
    IF lo > hi THEN 0
    ELSE IF lo = hi THEN xs[lo]
    ELSE SumBetween(xs, lo, (lo + hi) \div 2) + SumBetween(xs, (lo + hi) \div 2 + 1, hi)

SumSeq(xs) == SumBetween(xs, 1, Len(xs))

RECURSIVE MinSeq(_)
MinSeq(xs) == IF Len(xs) = 1 THEN xs[1] ELSE Min(Head(xs), MinSeq(Tail(xs)))

RECURSIVE MaxSeq(_)
MaxSeq(xs) == IF Len(xs) = 1 THEN xs[1] ELSE Max(Head(xs), MaxSeq(Tail(xs)))

\* the window of xs.rolling(window).<f>().iloc[-1]; the caller checks that
\* the series holds a full window (the result is NaN otherwise)
LastWindow(xs, window) == SubSeq(xs, Len(xs) - window + 1, Len(xs))

\* xs.rolling(window).mean().iloc[-1] as sum and count
HasWindow(xs, window) == window >= 1 /\ Len(xs) >= window

\* an RSI whose means run over every delta of the series (an expanding
\* window) instead of the trailing period deltas
RsiValueExpanding(prices, period) ==
    IF prices = <<>> THEN Raises
    ELSE IF ~HasWindow(prices, period) THEN None
    ELSE LET n == Len(prices)
             delta == [i \in 1..n |-> IF i = 1 THEN 0 ELSE prices[i] - prices[i - 1]]
             gain == SumSeq([i \in 1..n |-> Max(delta[i], 0)])
             loss == SumSeq([i \in 1..n |-> Max(-delta[i], 0)])
         IN  IF loss = 0 THEN (IF gain = 0 THEN None ELSE Num(100 * 100))
             ELSE Num((100 * 100 * gain) \div (gain + loss))

\* lines 30-36: delta.where(delta > 0, 0) and -delta.where(delta < 0, 0) put 0
\* at the first position, where delta is NaN
RsiValue(prices, period) ==
    IF prices = <<>> THEN Raises
    ELSE IF ~HasWindow(prices, period) THEN None
    ELSE LET n == Len(prices)
             delta == [i \in 1..n |-> IF i = 1 THEN 0 ELSE prices[i] - prices[i - 1]]
             gain == SumSeq(LastWindow([i \in 1..n |-> Max(delta[i], 0)], period))
             loss == SumSeq(LastWindow([i \in 1..n |-> Max(-delta[i], 0)], period))
         IN  IF loss = 0 THEN (IF gain = 0 THEN None ELSE Num(100 * 100))
             ELSE Num((100 * 100 * gain) \div (gain + loss))

CalculateRsiUnguarded(prices, period) == RsiValue(prices, period)

\* calculate_rsi(prices, period=14)
CalculateRsi(prices, period) ==
    IF Len(prices) < period + 1 THEN None ELSE RsiValue(prices, period)

\* xs.ewm(span=span, adjust=False).mean(): y[1] = x[1],
\* y[i] = (1 - a) * y[i-1] + a * x[i] with a = 2 / (span + 1).
\* EwmBetween is y[hi] given y = y[lo - 1], by halves.
RECURSIVE EwmBetween(_, _, _, _, _)
EwmBetween(xs, span, y, lo, hi) ==
    IF lo > hi THEN y
    ELSE IF lo = hi THEN ((span - 1) * y + 2 * xs[lo]) \div (span + 1)
    ELSE LET mid == (lo + hi) \div 2
             y_mid == EwmBetween(xs, span, y, lo, mid)
         IN  CASE y_mid \in Int -> EwmBetween(xs, span, y_mid, mid + 1, hi)

\* y[i] for 1 <= i <= Len(xs)
EwmAt(xs, span, i) == EwmBetween(xs, span, xs[1], 2, i)

Ewm(xs, span) == [i \in 1..Len(xs) |-> EwmAt(xs, span, i)]

\* calculate_macd(prices, fast=12, slow=26, signal=9)
CalculateMacd(prices, fast, slow, signal) ==
    IF Len(prices) < slow THEN None
    ELSE LET n == Len(prices)
             scaled == [i \in 1..n |-> EmaScale * prices[i]]
             ema_fast == Ewm(scaled, fast)
             ema_slow == Ewm(scaled, slow)
             macd_line == [i \in 1..n |-> ema_fast[i] - ema_slow[i]]
             signal_line == Ewm(macd_line, signal)
         IN  [k |-> "dict",
              macd |-> Num(macd_line[n]),
              signal |-> Num(signal_line[n]),
              histogram |-> Num(macd_line[n] - signal_line[n])]

\* prices.rolling(window=window).mean().iloc[-1]
Sma(prices, window) == SumSeq(LastWindow(prices, window)) \div window

\* calculate_moving_averages(prices)
CalculateMovingAverages(prices) ==
    IF Len(prices) < 200 THEN EmptyDict
    ELSE LET n == Len(prices)
             scaled == [i \in 1..n |-> EmaScale * prices[i]]
         IN  [k |-> "dict",
              sma_20 |-> IF n >= 20 THEN Num(Sma(prices, 20)) ELSE None,
              sma_50 |-> IF n >= 50 THEN Num(Sma(prices, 50)) ELSE None,
              sma_200 |-> IF n >= 200 THEN Num(Sma(prices, 200)) ELSE None,
              ema_12 |-> IF n >= 12 THEN Num(EwmAt(scaled, 12, n)) ELSE None,
              ema_26 |-> IF n >= 26 THEN Num(EwmAt(scaled, 26, n)) ELSE None]

\* the largest r in lo .. hi - 1 with r * r <= n, given lo * lo <= n < hi * hi
RECURSIVE SqrtBetween(_, _, _)
SqrtBetween(n, lo, hi) ==
    IF hi - lo <= 1 THEN lo
    ELSE LET mid == (lo + hi) \div 2
         IN  IF mid * mid <= n THEN SqrtBetween(n, mid, hi) ELSE SqrtBetween(n, lo, mid)

\* prices.rolling(window=period).std().iloc[-1] for period >= 2 (the sample
\* standard deviation), exactly 0 when the window is constant
RollingStd(prices, period) ==
    LET window == LastWindow(prices, period)
        mean == SumSeq(window) \div period
        squares == SumSeq([i \in 1..period |-> (window[i] - mean) * (window[i] - mean)])
    IN  IF \A i \in 1..period : window[i] = window[1] THEN 0
        ELSE Max(1, SqrtBetween(squares \div (period - 1), 0, 46341))

\* calculate_bollinger_bands(prices, period=20, std_dev=2)
CalculateBollingerBands(prices, period, std_dev) ==
    IF Len(prices) < period THEN None
    ELSE IF period = 1
    THEN \* the sample deviation of one point is NaN
         [k |-> "dict", upper |-> NaN, middle |-> NaN, lower |-> NaN,
          percent_b |-> NaN, bandwidth |-> NaN]
    ELSE LET current_price == prices[Len(prices)]
             middle == Sma(prices, period)
             std == RollingStd(prices, period)
             upper == middle + std * std_dev
             lower == middle - std * std_dev
         IN  [k |-> "dict",
              upper |-> Num(upper),
              middle |-> Num(middle),
              lower |-> Num(lower),
              percent_b |-> IF upper # lower
                            THEN Num(((current_price - lower) * 100 * 100) \div (upper - lower))
                            ELSE Num(50 * 100),
              bandwidth |-> IF middle > 0
                            THEN Num(((upper - lower) * 100 * 100) \div middle)
                            ELSE None]

\* k_percent at position i (1/100): NaN before a full window and for 0/0,
\* infinite for x/0
StochK(high, low, close, period, i) ==
    IF i < period \/ period < 1 THEN NaN
    ELSE LET lowest_low == MinSeq(SubSeq(low, i - period + 1, i))
             highest_high == MaxSeq(SubSeq(high, i - period + 1, i))
         IN  IF highest_high = lowest_low
             THEN (IF close[i] = lowest_low THEN NaN ELSE Inf)
             ELSE Num(((close[i] - lowest_low) * 100 * 100) \div (highest_high - lowest_low))

\* k_percent.rolling(window=3).mean().iloc[-1]
StochD(high, low, close, period) ==
    LET n == Len(close)
        ks == [j \in 1..3 |-> StochK(high, low, close, period, n - 3 + j)]
    IN  IF n < 3 \/ \E j \in 1..3 : ks[j] = NaN THEN NaN
        ELSE IF \E j \in 1..3 : ks[j] = Inf THEN Inf
        ELSE Num((ks[1].v + ks[2].v + ks[3].v) \div 3)

\* float(x) if not pd.isna(x) else None
NotNaN(x) == IF x = NaN THEN None ELSE x

\* calculate_stochastic(high, low, close, period=14); the three series have
\* the same length
CalculateStochastic(high, low, close, period) ==
    IF Len(close) < period THEN None
    ELSE [k |-> "dict",
          stoch_k |-> NotNaN(StochK(high, low, close, period, Len(close))),
          stoch_d |-> NotNaN(StochD(high, low, close, period))]

\* the true range at position i; close.shift() is NaN at the first position
\* and max(axis=1) skips it
TrueRange(high, low, close, i) ==
    IF i = 1 THEN high[i] - low[i]
    ELSE Max(high[i] - low[i],
             Max(Abs(high[i] - close[i - 1]), Abs(low[i] - close[i - 1])))

\* calculate_atr(high, low, close, period=14)
CalculateAtr(high, low, close, period) ==
    IF Len(close) < period + 1 THEN None
    ELSE LET n == Len(close)
             tr == [i \in 1..n |-> TrueRange(high, low, close, i)]
         IN  Num(SumSeq(LastWindow(tr, period)) \div period)

\* calculate_obv(close, volume)
CalculateObv(close, volume) ==
    IF Len(close) < 2 THEN None
    ELSE LET n == Len(close)
             signed == [i \in 1..n |->
                          IF i = 1 \/ close[i] = close[i - 1] THEN 0
                          ELSE IF close[i] > close[i - 1] THEN volume[i] ELSE -volume[i]]
         IN  Num(SumSeq(signed))

\* calculate_momentum(prices, period=10)
CalculateMomentum(prices, period) ==
    IF Len(prices) < period + 1 THEN None
    ELSE Num(prices[Len(prices)] - prices[Len(prices) - period])

---------------------------------------------------------------------------
(* Calls of the indicator functions.  One call is made from the initial    *)
(* state: fn is the function, args its arguments and ret its result.       *)

MaxLen == 4

MaxPeriod == 3

PriceLevels == {9900, 10000, 10200}

VolumeLevels == {0, 500}

Periods == 1..MaxPeriod

\* the series of at most MaxLen points over the levels
SeriesOver(levels) == UNION {[1..n -> levels] : n \in 0..MaxLen}

\* rows (high, low, close) of a price frame
Bars == {<<10200, 9900, 10000>>, <<10200, 10000, 10200>>, <<10000, 10000, 10000>>}

Column(rows, c) == [i \in 1..Len(rows) |-> rows[i][c]]

\* lengths around the windows 12, 20, 26, 50 and 200 of calculate_moving_averages
WindowEdges == {0, 1, 11, 12, 19, 20, 25, 26, 49, 50, 199, 200, 200 + MaxLen}

LongSeries ==
    {CloseSeries(n, first, last) : n \in WindowEdges, first \in PriceLevels, last \in PriceLevels}

\* the call returns value
Result(name, a, value) ==
    /\ fn' = name
    /\ args' = a
    /\ ret' = Returned(value)
    /\ pc' = "done"
    /\ UNCHANGED <<analysis, frame, hashseed, io, outer, suspended>>

calculate_rsi ==
    /\ pc = "idle"
    /\ \E prices \in SeriesOver(PriceLevels), period \in Periods :
        Result("calculate_rsi", [prices |-> prices, period |-> period],
               CalculateRsi(prices, period))

calculate_macd ==
    /\ pc = "idle"
    /\ \E prices \in SeriesOver(PriceLevels), fast \in Periods, slow \in Periods,
       signal \in Periods :
        /\ fast < slow
        /\ Result("calculate_macd",
                  [prices |-> prices, fast |-> fast, slow |-> slow, signal |-> signal],
                  CalculateMacd(prices, fast, slow, signal))

calculate_moving_averages ==
    /\ pc = "idle"
    /\ \E prices \in LongSeries :
        Result("calculate_moving_averages", [prices |-> prices],
               CalculateMovingAverages(prices))

calculate_bollinger_bands ==
    /\ pc = "idle"
    /\ \E prices \in SeriesOver(PriceLevels), period \in Periods :
        Result("calculate_bollinger_bands",
               [prices |-> prices, period |-> period, std_dev |-> 2],
               CalculateBollingerBands(prices, period, 2))

calculate_stochastic ==
    /\ pc = "idle"
    /\ \E rows \in SeriesOver(Bars), period \in Periods :
        Result("calculate_stochastic",
               [high |-> Column(rows, 1), low |-> Column(rows, 2),
                close |-> Column(rows, 3), period |-> period],
               CalculateStochastic(Column(rows, 1), Column(rows, 2), Column(rows, 3), period))

calculate_atr ==
    /\ pc = "idle"
    /\ \E rows \in SeriesOver(Bars), period \in Periods :
        Result("calculate_atr",
               [high |-> Column(rows, 1), low |-> Column(rows, 2),
                close |-> Column(rows, 3), period |-> period],
               CalculateAtr(Column(rows, 1), Column(rows, 2), Column(rows, 3), period))

calculate_obv ==
    /\ pc = "idle"
    /\ \E rows \in SeriesOver(PriceLevels \X VolumeLevels) :
        Result("calculate_obv", [close |-> Column(rows, 1), volume |-> Column(rows, 2)],
               CalculateObv(Column(rows, 1), Column(rows, 2)))

calculate_momentum ==
    /\ pc = "idle"
    /\ \E prices \in SeriesOver(PriceLevels), period \in Periods :
        Result("calculate_momentum", [prices |-> prices, period |-> period],
               CalculateMomentum(prices, period))

NextIndicators ==
    \/ calculate_rsi
    \/ calculate_macd
    \/ calculate_moving_averages
    \/ calculate_bollinger_bands
    \/ calculate_stochastic
    \/ calculate_atr
    \/ calculate_obv
    \/ calculate_momentum

SpecIndicators == Init /\ [][NextIndicators]_vars

\* C10: an indicator called with a series shorter than its minimum number of
\* points returns unavailable (None, or no entry for that moving average),
\* not a number and not an exception.  The minimums are period + 1 (RSI),
\* slow (MACD), the window (each moving average), period (Bollinger),
\* period (stochastic), period + 1 (ATR), 2 (OBV), period + 1 (momentum).
C10_ShortSeriesUnavailable ==
    /\ (fn = "calculate_rsi" /\ Len(args.prices) < args.period + 1) => ret.value = None
    /\ (fn = "calculate_macd" /\ Len(args.prices) < args.slow) => ret.value = None
    /\ fn = "calculate_moving_averages" =>
          \/ ret.value = EmptyDict
          \/ /\ Len(args.prices) < 20 => ~IsNum(ret.value.sma_20)
             /\ Len(args.prices) < 50 => ~IsNum(ret.value.sma_50)
             /\ Len(args.prices) < 200 => ~IsNum(ret.value.sma_200)
             /\ Len(args.prices) < 12 => ~IsNum(ret.value.ema_12)
             /\ Len(args.prices) < 26 => ~IsNum(ret.value.ema_26)
    /\ (fn = "calculate_bollinger_bands" /\ Len(args.prices) < args.period)
          => ret.value = None
    /\ (fn = "calculate_stochastic" /\ Len(args.close) < args.period) => ret.value = None
    /\ (fn = "calculate_atr" /\ Len(args.close) < args.period + 1) => ret.value = None
    /\ (fn = "calculate_obv" /\ Len(args.close) < 2) => ret.value = None
    /\ (fn = "calculate_momentum" /\ Len(args.prices) < args.period + 1) => ret.value = None

\* calculate_rsi called with exactly period points, one fewer than its
\* minimum, of which the last rises: it returned None
C10_Witness ==
    /\ fn = "calculate_rsi"
    /\ args.period >= 2
    /\ Len(args.prices) = args.period
    /\ args.prices[args.period] > args.prices[args.period - 1]
    /\ ret.value = None

---------------------------------------------------------------------------
(* Calls of ValuationModels.calculate_dcf.  The arguments cover a missing, *)
(* a negative, a zero and three positive cash flows, terminal growth below, *)
(* at and above the discount rate, and share counts that are missing,      *)
(* zero, positive and a string.                                            *)

MaxYears == 5

CashFlows == {None, NA, Num(-100000), Num(0), Num(10000), Num(100000), Num(1000000)}

GrowthRates == {None, Num(200), Num(1000), Num(1500)}

TerminalGrowthRates == {None, Num(250), Num(1000), Num(1200)}

DiscountRates == {None, Num(800), Num(1000)}

ShareCounts == {None, Num(0), Num(100), NA}

calculate_dcf ==
    /\ pc = "idle"
    /\ \E free_cash_flow \in CashFlows, growth_rate \in GrowthRates,
          terminal_growth_rate \in TerminalGrowthRates, discount_rate \in DiscountRates,
          years \in 1..MaxYears, shares_outstanding \in ShareCounts :
        Result("calculate_dcf",
               [free_cash_flow |-> free_cash_flow, growth_rate |-> growth_rate,
                terminal_growth_rate |-> terminal_growth_rate,
                discount_rate |-> discount_rate, years |-> years,
                shares_outstanding |-> shares_outstanding],
               CalculateDcf(free_cash_flow, growth_rate, terminal_growth_rate,
                            discount_rate, years, shares_outstanding))

NextDcf == calculate_dcf

SpecDcf == Init /\ [][NextDcf]_vars

\* C9: calculate_dcf fails closed: it returns None whenever free cash flow
\* is not positive and whenever the terminal growth rate is at least the
\* discount rate; it never raises and never returns a negative enterprise
\* value.
C9_DcfFailsClosed ==
    fn = "calculate_dcf" =>
        /\ ret.value.kind \in {"None", "result"}
        /\ (IsNum(args.free_cash_flow) /\ args.free_cash_flow.v <= 0)
              => ret.value = DcfUnavailable
        /\ (IsNum(args.terminal_growth_rate) /\ IsNum(args.discount_rate)
            /\ args.terminal_growth_rate.v >= args.discount_rate.v)
              => ret.value = DcfUnavailable
        /\ ret.value.kind = "result" => ret.value.enterprise_value >= 0

---------------------------------------------------------------------------
(* The moving averages as get_stock_info reads them.                       *)

\* ma.get(key) of lines 1585-1597: None for a key the dictionary lacks
MaGet(ma, key) == IF key \in DOMAIN ma THEN ma[key] ELSE None

\* C11: every moving average is available independently of the others:
\* SMA20, SMA50, SMA200, EMA12 and EMA26 are each a number if and only if the
\* series holds that average's own window (20, 50, 200, 12, 26 points), so a
\* series too short for SMA200 still yields the averages whose windows it
\* fills.
C11_IndependentAvailability ==
    fn = "calculate_moving_averages" =>
        /\ IsNum(MaGet(ret.value, "sma_20")) <=> Len(args.prices) >= 20
        /\ IsNum(MaGet(ret.value, "sma_50")) <=> Len(args.prices) >= 50
        /\ IsNum(MaGet(ret.value, "sma_200")) <=> Len(args.prices) >= 200
        /\ IsNum(MaGet(ret.value, "ema_12")) <=> Len(args.prices) >= 12
        /\ IsNum(MaGet(ret.value, "ema_26")) <=> Len(args.prices) >= 26

---------------------------------------------------------------------------
(* The data provider (yfinance).  An access either raises or answers; what *)
(* it answers is an input of the model.  A price frame holds the columns   *)
(* Close, High, Low and Volume; an info dictionary holds the quote, the    *)
(* profile (the classifier keywords of sector and industry and the         *)
(* recommendation key) and the fundamentals.                               *)

ProviderRaises == [kind |-> "raises"]

Answer(value) == [kind |-> "answer", value |-> value]

\* what an access of a history came to
FrameOutcome(hist) ==
    IF hist = ProviderRaises THEN "raises"
    ELSE IF Len(hist.value.Close) = 0 THEN "empty" ELSE "data"

\* a frame whose High and Low lie 100 cents above and below Close
PriceFrame(close, volume) ==
    [Close |-> close,
     High |-> [i \in 1..Len(close) |-> close[i] + 100],
     Low |-> [i \in 1..Len(close) |-> close[i] - 100],
     Volume |-> [i \in 1..Len(close) |-> volume]]

NoRows == PriceFrame(<<>>, 0)

\* DataFrame.empty
IsEmptyFrame(hist) == Len(hist.Close) = 0

RecentRows == PriceFrame(<<9900, 10000>>, 1000)

\* len(hist_1y) >= 200 (line 1566)
IndicatorMinRows == 200

ShortHistoryLen == 100

\* one-year histories: too short for the indicator block, rising, falling
\* and flat

OneYearFrames ==
    {PriceFrame(CloseSeries(ShortHistoryLen, 10000, 10200), 1000),
     PriceFrame(CloseSeries(IndicatorMinRows, 10000, 10200), 1000),
     PriceFrame(CloseSeries(IndicatorMinRows, 10200, 9900), 1000),
     PriceFrame(CloseSeries(IndicatorMinRows, 10000, 10000), 1000)}

LongFrames == {PriceFrame(CloseSeries(3, 5000, 10000), 1000)}

NoQuote == [currentPrice |-> Missing, regularMarketPrice |-> Missing]

NoProfile == [sector |-> {}, industry |-> {}, recommendationKey |-> ""]

ProviderInfo(quote, profile, fundamentals) ==
    [quote |-> quote, profile |-> profile, fundamentals |-> fundamentals]

\* the dictionary {}
EmptyProviderInfo == ProviderInfo(NoQuote, NoProfile, EmptyInfo)

\* not info or len(info) == 0 (line 1396)
IsEmptyInfo(info) == info = EmptyProviderInfo

InfoAnswers ==
    {EmptyProviderInfo,
     ProviderInfo([NoQuote EXCEPT !.currentPrice = Num(10000)],
                  [sector |-> {"technology"}, industry |-> {"software"},
                   recommendationKey |-> "buy"],
                  BullInfo),
     ProviderInfo([NoQuote EXCEPT !.regularMarketPrice = Num(10000)],
                  [sector |-> {"utilities"}, industry |-> {}, recommendationKey |-> "sell"],
                  BearInfo),
     ProviderInfo([NoQuote EXCEPT !.currentPrice = Num(0)],
                  NoProfile,
                  [EmptyInfo EXCEPT !.targetMeanPrice = Num(13000)])}

\* what an access of .info came to
InfoOutcome(info) ==
    IF info = ProviderRaises THEN "raises"
    ELSE IF IsEmptyInfo(info.value) THEN "empty" ELSE "data"

\* lines 1386-1392: the basic record made from the 5-day history
BasicInfo(hist) ==
    ProviderInfo([NoQuote EXCEPT !.regularMarketPrice = Num(hist.Close[Len(hist.Close)])],
                 NoProfile, EmptyInfo)

---------------------------------------------------------------------------
(* StockInfoAPI.get_stock_info.  formatted_info holds the keys that        *)
(* generate_ai_analysis reads and the indicator keys atr and obv; the      *)
(* locals rsi, macd, ma, bb, stoch, atr, obv and momentum of the indicator *)
(* block are kept in outer.indicators.                                     *)

NoIndicators == [computed |-> FALSE]

EmptyFormattedInfo ==
    [sector |-> {}, industry |-> {}, atr |-> Missing, obv |-> Missing] @@ EmptyStockData

OuterFrame ==
    [active |-> TRUE,
     ticker |-> "AAPL",
     info |-> EmptyProviderInfo,
     hist_max |-> NoRows, hist_1y |-> NoRows, hist_5y |-> NoRows,
     formatted_info |-> EmptyFormattedInfo,
     indicators |-> NoIndicators]

\* return {"error": message}
ReturnError(message) ==
    /\ pc' = "done"
    /\ ret' = Returned([error |-> message])
    /\ outer' = NoOuter
    /\ UNCHANGED <<fn, args, analysis, frame, hashseed, suspended>>

\* lines 1366-1369: the call is entered; yf.Ticker(...) fetches nothing
get_stock_info ==
    /\ pc = "idle"
    /\ fn' = "get_stock_info"
    /\ args' = [ticker |-> OuterFrame.ticker]
    /\ pc' = "probe"
    /\ outer' = OuterFrame
    /\ io' = <<>>
    /\ UNCHANGED <<analysis, frame, ret, hashseed, suspended>>

\* lines 1371-1377: ticker_obj.history(period="1d")
ConnectivityTest ==
    /\ pc = "probe"
    /\ \E test_data \in {ProviderRaises, Answer(NoRows), Answer(RecentRows)} :
          /\ io' = Append(io, ProviderAccess("history_1d", FrameOutcome(test_data), FALSE))
          /\ IF test_data = ProviderRaises THEN ReturnError("Connection failed: ")
             ELSE IF IsEmptyFrame(test_data.value)
             THEN ReturnError("No data found for ticker. It may be invalid or delisted.")
             ELSE /\ pc' = "info"
                  /\ UNCHANGED <<fn, args, analysis, frame, ret, hashseed, outer, suspended>>

\* lines 1379-1382 and 1396-1397: ticker_obj.info
GetCompanyInfo ==
    /\ pc = "info"
    /\ \E info \in {ProviderRaises} \cup {Answer(i) : i \in InfoAnswers} :
          /\ io' = Append(io, ProviderAccess("info", InfoOutcome(info), FALSE))
          /\ IF info = ProviderRaises
             THEN /\ pc' = "fallback"
                  /\ UNCHANGED <<fn, args, analysis, frame, ret, hashseed, outer, suspended>>
             ELSE IF IsEmptyInfo(info.value) THEN ReturnError("No data returned for ticker")
             ELSE /\ pc' = "hist_max"
                  /\ outer' = [outer EXCEPT !.info = info.value]
                  /\ UNCHANGED <<fn, args, analysis, frame, ret, hashseed, suspended>>

\* lines 1383-1394: ticker_obj.history(period="5d") in the except clause;
\* an exception raised there reaches the except clause of line 1655
BasicDataFromHistory ==
    /\ pc = "fallback"
    /\ \E hist \in {ProviderRaises, Answer(NoRows), Answer(RecentRows)} :
          /\ io' = Append(io, ProviderAccess("history_5d", FrameOutcome(hist), FALSE))
          /\ IF hist = ProviderRaises THEN ReturnError("Error fetching stock information: ")
             ELSE IF IsEmptyFrame(hist.value) THEN ReturnError("Unable to fetch data for ticker")
             ELSE /\ pc' = "hist_max"
                  /\ outer' = [outer EXCEPT !.info = BasicInfo(hist.value)]
                  /\ UNCHANGED <<fn, args, analysis, frame, ret, hashseed, suspended>>

\* the frames the provider may answer for a period
HistoryAnswers(period) ==
    {ProviderRaises, Answer(NoRows)}
    \cup {Answer(h) : h \in IF period = "hist_1y" THEN OneYearFrames ELSE LongFrames}

\* lines 1399-1402: history(period="max"), history(period="1y") and
\* history(period="5y"), one access each
GetHistoricalData ==
    /\ pc \in {"hist_max", "hist_1y", "hist_5y"}
    /\ \E hist \in HistoryAnswers(pc) :
          /\ io' = Append(io, ProviderAccess(pc, FrameOutcome(hist), FALSE))
          /\ IF hist = ProviderRaises THEN ReturnError("Error fetching stock information: ")
             ELSE /\ pc' = CASE pc = "hist_max" -> "hist_1y"
                              [] pc = "hist_1y" -> "hist_5y"
                              [] pc = "hist_5y" -> "format"
                  /\ outer' = [outer EXCEPT ![pc] = hist.value]
                  /\ UNCHANGED <<fn, args, analysis, frame, ret, hashseed, suspended>>

\* round(num / den) to the nearest integer for den > 0 and any num
RoundDiv(num, den) ==
    IF num >= 0 THEN RoundHalfEven(num, den) ELSE -RoundHalfEven(-num, den)

\* round(x, n) if x else 'N/A', for x in 1/unit of the formatted unit
RoundOrNA(x, unit) == IF Truthy(x) THEN (IF IsNum(x) THEN Num(RoundDiv(x.v, unit)) ELSE x) ELSE NA

DollarText(v) == [k |-> "dollars", v |-> v]

\* lines 462-475: a number becomes its "$..." text
format_large_number(num) == DollarText(num.v)

\* f"{(last - first) / first * 100:.2f}%" of a Close column
ReturnText(close) ==
    Pct(RoundDiv((close[Len(close)] - close[1]) * 100 * 100, close[1]))

\* lines 1430-1563: the response is formatted from info and the histories
FormattedInfo(o) ==
    LET from_info ==
            [EmptyFormattedInfo EXCEPT
                !.currentPrice = Get(o.info.quote, "currentPrice",
                                     Get(o.info.quote, "regularMarketPrice", NA)),
                !.sector = o.info.profile.sector,
                !.industry = o.info.profile.industry]
        one_year ==
            IF IsEmptyFrame(o.hist_1y) THEN from_info
            ELSE [from_info EXCEPT !.oneYearReturn = ReturnText(o.hist_1y.Close)]
        five_year ==
            IF IsEmptyFrame(o.hist_5y) THEN one_year
            ELSE [one_year EXCEPT !.fiveYearReturn = ReturnText(o.hist_5y.Close)]
    IN  IF IsEmptyFrame(o.hist_max) THEN from_info ELSE five_year

FormatResponse ==
    /\ pc = "format"
    /\ pc' = "indicators"
    /\ outer' = [outer EXCEPT !.formatted_info = FormattedInfo(outer)]
    /\ UNCHANGED <<fn, args, analysis, frame, ret, hashseed, io, suspended>>

\* the locals of lines 1573-1623
Indicators(hist) ==
    [computed |-> TRUE,
     rsi |-> CalculateRsi(hist.Close, 14),
     macd |-> CalculateMacd(hist.Close, 12, 26, 9),
     ma |-> CalculateMovingAverages(hist.Close),
     bb |-> CalculateBollingerBands(hist.Close, 20, 2),
     stoch |-> CalculateStochastic(hist.High, hist.Low, hist.Close, 14),
     atr |-> CalculateAtr(hist.High, hist.Low, hist.Close, 14),
     obv |-> CalculateObv(hist.Close, hist.Volume),
     momentum |-> CalculateMomentum(hist.Close, 10)]

\* lines 1592-1597: round((current_price - sma) / sma * 100, 2), set only
\* if ma.get(key) and current_price
PriceVsSma(ma, key, current_price) ==
    IF Truthy(MaGet(ma, key)) /\ current_price # 0
    THEN Num(RoundDiv((current_price - ma[key].v) * 100 * 100, ma[key].v))
    ELSE Missing

\* lines 1642-1646
VolumeRatio(volume) ==
    LET count == Min(20, Len(volume))
        total == SumSeq(LastWindow(volume, count))
    IN  IF total > 0
        THEN Num(RoundDiv(volume[Len(volume)] * count * 100 * 100, total))
        ELSE Missing

\* lines 1572-1646: the indicator keys of formatted_info
WithIndicators(formatted_info, hist, ind) ==
    LET current_price == hist.Close[Len(hist.Close)]
        IsDict(x) == x.k = "dict" /\ x # EmptyDict
    IN  [formatted_info EXCEPT
            !.rsi = RoundOrNA(ind.rsi, 1),
            !.macd = IF IsDict(ind.macd) THEN RoundOrNA(ind.macd.macd, 10) ELSE NA,
            !.macdSignal = IF IsDict(ind.macd) THEN RoundOrNA(ind.macd.signal, 10) ELSE NA,
            !.macdHistogram = IF IsDict(ind.macd) THEN RoundOrNA(ind.macd.histogram, 10) ELSE NA,
            !.priceVsSMA20 = PriceVsSma(ind.ma, "sma_20", current_price),
            !.priceVsSMA50 = PriceVsSma(ind.ma, "sma_50", current_price),
            !.priceVsSMA200 = PriceVsSma(ind.ma, "sma_200", current_price),
            !.bbPercentB = IF IsDict(ind.bb) THEN ind.bb.percent_b ELSE Missing,
            !.stochK = IF IsDict(ind.stoch) THEN RoundOrNA(ind.stoch.stoch_k, 1) ELSE Missing,
            !.stochD = IF IsDict(ind.stoch) THEN RoundOrNA(ind.stoch.stoch_d, 1) ELSE Missing,
            !.atr = RoundOrNA(ind.atr, 1),
            !.obv = IF Truthy(ind.obv) THEN format_large_number(ind.obv) ELSE NA,
            !.momentum = RoundOrNA(ind.momentum, 1),
            !.volumeRatio = VolumeRatio(hist.Volume)]

\* lines 1565-1646
CalculateTechnicalIndicators ==
    /\ pc = "indicators"
    /\ pc' = "analysis"
    /\ outer' = IF Len(outer.hist_1y.Close) >= IndicatorMinRows
                THEN LET ind == Indicators(outer.hist_1y)
                     IN  [outer EXCEPT
                            !.indicators = ind,
                            !.formatted_info = WithIndicators(outer.formatted_info,
                                                              outer.hist_1y, ind)]
                ELSE outer
    /\ UNCHANGED <<fn, args, analysis, frame, ret, hashseed, io, suspended>>

\* lines 1649-1650: a second Ticker is made, which fetches nothing, and
\* generate_ai_analysis is called; whether the .info of the new Ticker
\* raises is the provider's choice
AnalysisArguments(o, info_raises) ==
    [stock_data |-> o.formatted_info,
     info |-> [recommendationKey |-> o.info.profile.recommendationKey]
              @@ o.info.fundamentals,
     hist_data |-> IF IsEmptyFrame(o.hist_1y) THEN NoHistory ELSE History(o.hist_1y.Close),
     ticker_obj |-> Ticker(info_raises,
                           IF info_raises THEN Missing ELSE o.info.fundamentals.beta)]

AiAnalysis ==
    /\ pc = "analysis"
    /\ \E info_raises \in BOOLEAN : Enter(AnalysisArguments(outer, info_raises))

\* lines 1651-1653: formatted_info["aiAnalysis"] = analysis and
\* return formatted_info
AttachAnalysis ==
    /\ pc = "attach"
    /\ pc' = "done"
    /\ fn' = "get_stock_info"
    /\ args' = [ticker |-> outer.ticker]
    /\ ret' = Returned([aiAnalysis |-> ret.value] @@ outer.formatted_info)
    /\ outer' = NoOuter
    /\ UNCHANGED <<analysis, frame, hashseed, io, suspended>>

NextStockInfo ==
    \/ get_stock_info
    \/ ConnectivityTest
    \/ GetCompanyInfo
    \/ BasicDataFromHistory
    \/ GetHistoricalData
    \/ FormatResponse
    \/ CalculateTechnicalIndicators
    \/ AiAnalysis
    \/ ScoreSections
    \/ ValuationSections
    \/ OverallScoring
    \/ TargetAndReasoning
    \/ Conclusion
    \/ ExceptClause
    \/ Return
    \/ AttachAnalysis

SpecStockInfo == Init /\ [][NextStockInfo]_vars

---------------------------------------------------------------------------
(* Properties of get_stock_info *)

\* C12: absence is distinct from zero.  An indicator that the indicator
\* block computed as exactly zero (RSI, MACD, signal, histogram, momentum,
\* OBV, ATR, stochastic %K and %D) is carried into formatted_info as a zero
\* and not as 'N/A', and a priceVsSMA200, priceVsSMA50 or priceVsSMA20 of
\* zero is scored by the moving-average section.
C12_ZeroIsNotAbsent ==
    (outer.active /\ outer.indicators.computed) =>
        LET ind == outer.indicators
            formatted_info == outer.formatted_info
            Carried(x, key) == x = Num(0) => formatted_info[key] = Num(0)
        IN  /\ Carried(ind.rsi, "rsi")
            /\ ind.macd.k = "dict" =>
                  /\ Carried(ind.macd.macd, "macd")
                  /\ Carried(ind.macd.signal, "macdSignal")
                  /\ Carried(ind.macd.histogram, "macdHistogram")
            /\ Carried(ind.momentum, "momentum")
            /\ Carried(ind.atr, "atr")
            /\ ind.obv = Num(0) => formatted_info.obv = format_large_number(Num(0))
            /\ ind.stoch.k = "dict" =>
                  /\ Carried(ind.stoch.stoch_k, "stochK")
                  /\ Carried(ind.stoch.stoch_d, "stochD")
            /\ formatted_info.priceVsSMA200 = Num(0) =>
                  Sma200Points(formatted_info.priceVsSMA200) # NoPts
            /\ formatted_info.priceVsSMA50 = Num(0) =>
                  Sma50Points(formatted_info.priceVsSMA50) # NoPts
            /\ formatted_info.priceVsSMA20 = Num(0) =>
                  Sma20Points(formatted_info.priceVsSMA20) # NoPts

\* C14: get_stock_info returns either {"error": message} and nothing else,
\* or a record with aiAnalysis and without error; and generate_ai_analysis
\* is invoked by get_stock_info only with a one-year price history that has
\* rows and a fundamentals record that is not empty.
C14_ErrorOrFullRecord ==
    /\ (fn = "get_stock_info" /\ ret.returned) =>
          \/ DOMAIN ret.value = {"error"}
          \/ "aiAnalysis" \in DOMAIN ret.value /\ "error" \notin DOMAIN ret.value
    /\ (fn = "generate_ai_analysis" /\ outer.active) =>
          /\ ~IsEmptyFrame(outer.hist_1y)
          /\ ~IsEmptyInfo(outer.info)

\* C15: every failure of the data provider during a request of
\* get_stock_info (a history that raises or comes back empty, an .info that
\* raises) ends in the error object, and an access that failed is not made
\* again in the same request.
C15_FailuresSurfacedNoRetry ==
    (fn = "get_stock_info" /\ ret.returned) =>
        LET Failed(access) ==
                \/ access.outcome = "raises"
                \/ access.outcome = "empty" /\ access.op # "info"
        IN  /\ (\E i \in 1..Len(io) : Failed(io[i])) => DOMAIN ret.value = {"error"}
            /\ \A i \in 1..Len(io) : \A j \in (i + 1)..Len(io) :
                  Failed(io[i]) => io[j].op # io[i].op

\* C16: no provider I/O inside the core.  No access of the data provider is
\* made between the entry of generate_ai_analysis and its return.
C16_NoProviderAccessInCore ==
    \A i \in 1..Len(io) : ~io[i].core

\* C18: frame.  From the entry of generate_ai_analysis to its return, on
\* the normal and on the exception-fallback path and across the calls of
\* calculate_relative_valuation, analyze_macro_environment and
\* analyze_sentiment that it makes, stock_data, info and hist_data are
\* equal to the values the caller passed.
C18_InputsUnchanged ==
    (fn = "generate_ai_analysis" /\ outer.active) =>
        \E info_raises \in BOOLEAN :
            LET passed == AnalysisArguments(outer, info_raises)
            IN  /\ args.stock_data = passed.stock_data
                /\ args.info = passed.info
                /\ args.hist_data = passed.hist_data

\* generate_ai_analysis has returned to get_stock_info through its except
\* clause
C18_Witness ==
    /\ fn = "generate_ai_analysis"
    /\ outer.active
    /\ pc = "attach"
    /\ ret.returned
    /\ frame.raised # 0

---------------------------------------------------------------------------
(* Calls of the valuation, macro and sentiment models.  One call is made   *)
(* from the initial state.                                                 *)

\* ratios in 1/1000; a P/E of 9.0, 15.75, 29.25 and 36.0 alone gives the
\* scores -20, -10, 10 and 20 at which the label changes
RatioValues ==
    {Missing, None, Num(0), Num(-5000), Num(8000), Num(22500), Num(40000),
     Num(9000), Num(15750), Num(29250), Num(36000)}

RatioKeys == {"trailingPE", "priceToBook", "priceToSalesTrailing12Months"}

RelativeInputs ==
    {[EmptyInfo EXCEPT !.trailingPE = pe, !.priceToBook = pb,
                       !.priceToSalesTrailing12Months = ps] :
        pe \in RatioValues, pb \in RatioValues, ps \in RatioValues}

calculate_relative_valuation ==
    /\ pc = "idle"
    /\ \E info \in RelativeInputs :
        Result("calculate_relative_valuation", [info |-> info],
               CalculateRelativeValuation(info))

\* C13: relative valuation is monotonic.  For every fundamentals record
\* that differs from the one of the call only in that one of trailing P/E,
\* price-to-book or price-to-sales is larger (or positive where the call's
\* was absent, zero or negative), premium_discount is not lower than the
\* one the call returned.
C13_RelativeValuationMonotonic ==
    (fn = "calculate_relative_valuation" /\ ret.returned) =>
        \A second \in RelativeInputs :
            (\E key \in RatioKeys :
                /\ IsNum(second[key])
                /\ IF IsNum(args.info[key]) THEN args.info[key].v < second[key].v
                   ELSE second[key].v > 0
                /\ \A other \in RatioKeys \ {key} : second[other] = args.info[other])
            => CalculateRelativeValuation(second).premium_discount
                   >= ret.value.premium_discount

\* the Close columns of the sentiment calls: 20 points that end 15, 10, 6,
\* 5, 0, -5, -6, -10 and -15 percent from where they start, and 19 points
SentimentHistories ==
    {NoHistory, History(CloseSeries(19, 10000, 11500))}
    \cup {History(CloseSeries(20, 10000, last)) :
            last \in {11500, 11000, 10600, 10500, 10000, 9500, 9400, 9000, 8500}}

SentimentInfos ==
    {[EmptyInfo EXCEPT !.averageVolume = avg_volume, !.volume = current_volume,
                       !.heldPercentInstitutions = inst_ownership]
        @@ [recommendationKey |-> recommendation] :
        avg_volume \in {Missing, Num(0), Num(1000)},
        current_volume \in {Missing, Num(500), Num(700), Num(1500), Num(2000)},
        inst_ownership \in {Missing, Num(20000), Num(30000), Num(70000), Num(75000)},
        recommendation \in {"", "strong_buy", "buy", "hold", "sell", "strong_sell"}}

analyze_sentiment ==
    /\ pc = "idle"
    /\ \E info \in SentimentInfos, hist_data \in SentimentHistories :
        Result("analyze_sentiment",
               [ticker |-> "AAPL", info |-> info, hist_data |-> hist_data],
               AnalyzeSentiment(info, hist_data))

\* C19: the sentiment score is analyst +30 / -30, momentum +25 / -25,
\* retail +20 / -20 and institutional +25 / -15 added up, and the overall
\* label is BULLISH iff score > 40, SLIGHTLY BULLISH iff 15 < score <= 40,
\* BEARISH iff score < -40, SLIGHTLY BEARISH iff -40 <= score < -15 and
\* NEUTRAL otherwise.
C19_SentimentScoreAndLabel ==
    (fn = "analyze_sentiment" /\ ret.returned) =>
        LET sentiment == ret.value
            analyst == CASE sentiment.analyst_sentiment = "BULLISH" -> 30
                         [] sentiment.analyst_sentiment = "BEARISH" -> -30
                         [] OTHER -> 0
            momentum == CASE sentiment.momentum_sentiment \in {"VERY BULLISH", "BULLISH"} -> 25
                          [] sentiment.momentum_sentiment \in {"VERY BEARISH", "BEARISH"} -> -25
                          [] OTHER -> 0
            retail == CASE sentiment.retail_interest = "HIGH" -> 20
                        [] sentiment.retail_interest = "LOW" -> -20
                        [] OTHER -> 0
            institutional == CASE sentiment.institutional_interest = "HIGH" -> 25
                               [] sentiment.institutional_interest = "LOW" -> -15
                               [] OTHER -> 0
            score == analyst + momentum + retail + institutional
            label == sentiment.overall_sentiment
        IN  /\ label = "BULLISH" <=> score > 40
            /\ label = "SLIGHTLY BULLISH" <=> (15 < score /\ score <= 40)
            /\ label = "BEARISH" <=> score < -40
            /\ label = "SLIGHTLY BEARISH" <=> (-40 <= score /\ score < -15)
            /\ label = "NEUTRAL" <=> (-15 <= score /\ score <= 15)

\* a call whose score is exactly 40: bullish analysts, bullish momentum,
\* medium retail interest and low institutional interest
C19_Witness ==
    /\ fn = "analyze_sentiment"
    /\ ret.returned
    /\ ret.value.analyst_sentiment = "BULLISH"
    /\ ret.value.momentum_sentiment = "BULLISH"
    /\ ret.value.retail_interest = "MEDIUM"
    /\ ret.value.institutional_interest = "LOW"
    /\ ret.value.overall_sentiment = "SLIGHTLY BULLISH"

\* the keywords of the classifier; a text that contains "healthcare"
\* contains "health"
SectorKeywords ==
    {"technology", "financial", "consumer", "discretionary", "staples", "healthcare",
     "health", "energy", "utilities", "real estate"}

IndustryKeywords == {"software", "semiconductor", "bank", "oil", "reit"}

MaxKeywords == 2

Sectors ==
    {s \in SUBSET SectorKeywords :
        Cardinality(s) <= MaxKeywords + 1 /\ ("healthcare" \in s => "health" \in s)}

Industries == {s \in SUBSET IndustryKeywords : Cardinality(s) <= MaxKeywords}

MacroTickers ==
    {NoTicker, Ticker(TRUE, Missing), Ticker(FALSE, Missing),
     Ticker(FALSE, Num(140)), Ticker(FALSE, Num(50))}

analyze_macro_environment ==
    /\ pc = "idle"
    /\ \E ticker_obj \in MacroTickers, sector \in Sectors, industry \in Industries :
          /\ fn' = "analyze_macro_environment"
          /\ args' = [ticker_obj |-> ticker_obj, sector |-> sector, industry |-> industry]
          /\ ret' = Returned(AnalyzeMacroEnvironment(ticker_obj, sector, industry))
          /\ io' = MacroProviderAccess(ticker_obj, FALSE)
          /\ pc' = "done"
          /\ UNCHANGED <<analysis, frame, hashseed, outer, suspended>>

\* C20: the macro classifier applies exactly one category, the first of
\* technology/software/semiconductor, financial/bank, consumer
\* discretionary, consumer staples, healthcare, energy/oil, utilities and
\* real estate that matches.  The four labels are that category's values
\* (the default where the category sets none), economic_pressures holds
\* that category's rationale once and no other sector rationale, and when
\* no category matches the four labels are the defaults and no sector
\* rationale is added.
C20_FirstMatchingCategory ==
    (fn = "analyze_macro_environment" /\ ret.returned) =>
        LET sector == args.sector
            industry == args.industry
            Category(matches, outlook, rate, inflation, recession, rationale) ==
                [matches |-> matches, sector_outlook |-> outlook,
                 interest_rate_sensitivity |-> rate, inflation_impact |-> inflation,
                 recession_resilience |-> recession, rationale |-> rationale]
            categories ==
                << Category("technology" \in sector \/ "software" \in industry
                                \/ "semiconductor" \in industry,
                            "POSITIVE", "HIGH", "MEDIUM", "LOW-MEDIUM",
                            "Technology sector benefits from digital transformation trends"),
                   Category("financial" \in sector \/ "bank" \in industry,
                            "NEUTRAL", "VERY HIGH", "MEDIUM", "LOW",
                            "Financial sector highly sensitive to interest rate changes"),
                   Category("consumer" \in sector /\ "discretionary" \in sector,
                            "CAUTIOUS", "MEDIUM", "HIGH", "LOW",
                            "Consumer discretionary sensitive to economic cycles"),
                   Category("consumer" \in sector /\ "staples" \in sector,
                            "STABLE", "MEDIUM", "MEDIUM", "HIGH",
                            "Consumer staples provide defensive characteristics"),
                   Category("healthcare" \in sector \/ "health" \in sector,
                            "POSITIVE", "MEDIUM", "LOW-MEDIUM", "HIGH",
                            "Healthcare sector shows defensive characteristics"),
                   Category("energy" \in sector \/ "oil" \in industry,
                            "VOLATILE", "MEDIUM", "HIGH", "MEDIUM",
                            "Energy sector subject to commodity price volatility"),
                   Category("utilities" \in sector,
                            "STABLE", "HIGH", "MEDIUM", "HIGH",
                            "Utilities provide stable dividends but sensitive to rates"),
                   Category("real estate" \in sector \/ "reit" \in industry,
                            "CAUTIOUS", "VERY HIGH", "MEDIUM", "LOW-MEDIUM",
                            "Real estate highly sensitive to interest rates and economic cycles") >>
            matching == {c \in 1..Len(categories) : categories[c].matches}
            first == CHOOSE c \in matching : \A other \in matching : c <= other
            macro_analysis == ret.value
            pressures == macro_analysis.economic_pressures
            rationales ==
                {p \in 1..Len(pressures) :
                    \E c \in 1..Len(categories) : pressures[p] = categories[c].rationale}
            Labels(m) ==
                <<m.sector_outlook, m.interest_rate_sensitivity, m.inflation_impact,
                  m.recession_resilience>>
        IN  IF matching = {}
            THEN Labels(macro_analysis) = <<"NEUTRAL", "MEDIUM", "MEDIUM", "MEDIUM">>
                 /\ rationales = {}
            ELSE /\ Labels(macro_analysis) = Labels(categories[first])
                 /\ Cardinality(rationales) = 1
                 /\ \A p \in rationales : pressures[p] = categories[first].rationale

\* a call whose sector text matches financial and energy and whose
\* industry text matches reit: the financial category alone is applied
C20_Witness ==
    /\ fn = "analyze_macro_environment"
    /\ ret.returned
    /\ {"financial", "energy"} \subseteq args.sector
    /\ "reit" \in args.industry
    /\ ret.value.sector_outlook = "NEUTRAL"
    /\ ret.value.interest_rate_sensitivity = "VERY HIGH"
    /\ ret.value.recession_resilience = "LOW"
    /\ "Financial sector highly sensitive to interest rate changes"
           \in {ret.value.economic_pressures[p] : p \in 1..Len(ret.value.economic_pressures)}

NextModels ==
    \/ calculate_relative_valuation
    \/ analyze_macro_environment
    \/ analyze_sentiment

SpecModels == Init /\ [][NextModels]_vars

---------------------------------------------------------------------------
(* Concurrent requests.  The server of line 1696 handles each request in   *)
(* a thread of its own.  One thread runs at a time; suspended holds the    *)
(* contexts of the other threads, and a switch of threads may happen       *)
(* between any two steps.  The locals of a call belong to the thread that  *)
(* made it; hashseed belongs to the process.                               *)

MaxThreads == 2

\* a thread that has not been handed a request
IdleContext ==
    [fn |-> "none", pc |-> "idle", args |-> <<>>, analysis |-> InitialAnalysis,
     frame |-> EmptyFrame, ret |-> NoReturn, io |-> <<>>, outer |-> NoOuter]

RunningContext ==
    [fn |-> fn, pc |-> pc, args |-> args, analysis |-> analysis,
     frame |-> frame, ret |-> ret, io |-> io, outer |-> outer]

InitConcurrent ==
    /\ fn = "none"
    /\ pc = "idle"
    /\ args = <<>>
    /\ analysis = InitialAnalysis
    /\ frame = EmptyFrame
    /\ ret = NoReturn
    /\ hashseed \in Seeds
    /\ io = <<>>
    /\ outer = NoOuter
    /\ suspended = [t \in 1..(MaxThreads - 1) |-> IdleContext]

\* the dictionary were one object of the module, shared by the calls
ModuleGlobal(own, current) == current

\* line 497: analysis is a local of the call, so the thread that resumes
\* finds its own dictionary whatever the thread switched out has written
ThreadLocal(own, current) == own

\* the running thread is switched out and thread t resumes
Switch ==
    \E t \in 1..Len(suspended) :
        /\ fn' = suspended[t].fn
        /\ pc' = suspended[t].pc
        /\ args' = suspended[t].args
        /\ analysis' = ThreadLocal(suspended[t].analysis, analysis)
        /\ frame' = suspended[t].frame
        /\ ret' = suspended[t].ret
        /\ io' = suspended[t].io
        /\ outer' = suspended[t].outer
        /\ suspended' = [suspended EXCEPT ![t] = RunningContext]
        /\ UNCHANGED hashseed

\* the requests and the provider answers of the concurrent runs: two
\* requests of generate_ai_analysis, one of them raising at line 876, and
\* a provider that raises nothing, has no rows for the max, 1y and 5y
\* periods and answers .info with one dictionary or with {}
ConcurrentInputs ==
    LET c == CHOOSE c \in Contexts : c.sector = {"technology"}
    IN  {Request(BullStockData, BullInfo, c),
         Request([BearStockData EXCEPT !.currentPrice = None], BearInfo, c)}

ConcurrentAnswers ==
    /\ \A i \in 1..Len(io) : io[i].outcome # "raises"
    /\ outer.active =>
          /\ outer.info \in {EmptyProviderInfo,
                             CHOOSE i \in InfoAnswers : i.profile.sector = {"utilities"}}
          /\ IsEmptyFrame(outer.hist_max)
          /\ IsEmptyFrame(outer.hist_1y)
          /\ IsEmptyFrame(outer.hist_5y)

\* a thread is handed a request of generate_ai_analysis
HandleAnalysis ==
    /\ pc = "idle"
    /\ \E a \in ConcurrentInputs : Enter(a)

NextConcurrent ==
    \/ HandleAnalysis
    \/ get_stock_info
    \/ ConnectivityTest /\ ConcurrentAnswers'
    \/ GetCompanyInfo /\ ConcurrentAnswers'
    \/ GetHistoricalData /\ ConcurrentAnswers'
    \/ FormatResponse
    \/ CalculateTechnicalIndicators
    \/ AiAnalysis /\ ConcurrentAnswers'
    \/ ScoreSections
    \/ ValuationSections /\ ConcurrentAnswers'
    \/ OverallScoring
    \/ TargetAndReasoning
    \/ Conclusion
    \/ ExceptClause
    \/ Return
    \/ AttachAnalysis
    \/ Switch

SpecConcurrent == InitConcurrent /\ [][NextConcurrent]_vars

---------------------------------------------------------------------------
(* Price target, indicators and valuation models: further properties *)

\* C21: in a returned dictionary priceTarget is the analyst target-mean
\* price when that price is known; otherwise, when the current price is
\* known, it is the current price times 1.15 / 1.05 / 0.95 / 0.85 chosen by
\* the overall score; it is absent only when neither price is known; and in
\* the first two cases no statement raised, so the dictionary is the full
\* analysis and not the except fallback.
C21_PriceTargetAndFullResult ==
    (fn = "generate_ai_analysis" /\ pc = "done") =>
        LET target_mean == Get(args.info, "targetMeanPrice", None)
            current_price == CurrentPrice(args.stock_data)
            target_known == IsNum(target_mean) /\ target_mean.v > 0
            current_known == IsNum(current_price) /\ current_price.v > 0
        IN  /\ target_known =>
                 /\ ret.value.priceTarget = Num(target_mean.v)
                 /\ frame.raised = 0
            /\ (~target_known /\ current_known) =>
                 /\ frame.raised = 0
                 /\ ret.value.priceTarget =
                       Num(RoundHalfEven(current_price.v
                                           * TargetMultiplier(frame.overall_score), 100))
            /\ ret.value.priceTarget = None => ~target_known

\* the day-over-day deltas of a series: delta[i] = prices[i + 1] - prices[i]
Deltas(prices) == [i \in 1..(Len(prices) - 1) |-> prices[i + 1] - prices[i]]

\* the sum of the gains and of the losses over the trailing period deltas
TrailingGain(prices, period) ==
    SumSeq(LastWindow([i \in 1..(Len(prices) - 1) |-> Max(Deltas(prices)[i], 0)], period))

TrailingLoss(prices, period) ==
    SumSeq(LastWindow([i \in 1..(Len(prices) - 1) |-> Max(-Deltas(prices)[i], 0)], period))

\* C22: calculate_rsi returns None, never a number, whenever the average
\* loss over the trailing period deltas is 0, whether or not the window
\* holds gains.
C22_NoLossIsUnavailable ==
    (/\ fn = "calculate_rsi"
     /\ Len(args.prices) >= args.period + 1
     /\ TrailingLoss(args.prices, args.period) = 0)
        => ret.value = None

\* C23: a number returned by calculate_rsi is 100 - 100 / (1 + G / L)
\* = 100 * G / (G + L) for the means G and L of the gains and of the losses
\* over exactly the trailing period deltas (here to the hundredth below),
\* it lies within [0, 100], and the points before the trailing window do not
\* enter it: the series cut to its last period + 1 points gives the same
\* result.
C23_RsiFormulaOverTrailingWindow ==
    (fn = "calculate_rsi" /\ IsNum(ret.value)) =>
        LET period == args.period
            G == TrailingGain(args.prices, period)
            L == TrailingLoss(args.prices, period)
        IN  /\ Len(args.prices) >= period + 1
            /\ G + L > 0
            /\ ret.value.v * (G + L) <= 100 * 100 * G
            /\ 100 * 100 * G < (ret.value.v + 1) * (G + L)
            /\ ret.value.v >= 0
            /\ ret.value.v <= 100 * 100
            /\ ret.value = CalculateRsi(LastWindow(args.prices, period + 1), period)

\* a call with more points than period + 1, a gain and a loss within the
\* trailing window and a different first point outside it, which returned
\* 100 * G / (G + L)
C23_Witness ==
    /\ fn = "calculate_rsi"
    /\ args.period = 2
    /\ args.prices = <<10200, 9900, 10000, 9900>>
    /\ TrailingGain(args.prices, args.period) = 100
    /\ TrailingLoss(args.prices, args.period) = 100
    /\ ret.value = Num(5000)

\* (100 * ratio / reference - 100) / 3 in 1/RelDen for a ratio and a
\* reference in 1/1000, 0 for a ratio that is absent or not positive
PremiumShare(ratio, reference) ==
    IF IsNum(ratio) /\ ratio.v > 0
    THEN (1575 * (ratio.v - reference)) \div (reference \div 100)
    ELSE 0

\* C24: premium_discount of calculate_relative_valuation is the sum over
\* trailing P/E (reference 22.5), P/B (3.5) and P/S (2.5) of
\* (100 * ratio / reference - 100) / 3 for each ratio that is present and
\* positive and 0 for the others; overall_valuation is EXPENSIVE iff the
\* score is > 20, SLIGHTLY EXPENSIVE iff 10 < score <= 20, FAIR iff
\* -10 < score <= 10, SLIGHTLY CHEAP iff -20 < score <= -10 and CHEAP
\* otherwise; a record without a usable ratio is FAIR with score 0.
C24_PremiumSumAndLabel ==
    (fn = "calculate_relative_valuation" /\ ret.returned) =>
        LET score == ret.value.premium_discount
            label == ret.value.overall_valuation
            usable(key) == IsNum(args.info[key]) /\ args.info[key].v > 0
        IN  /\ score = PremiumShare(args.info.trailingPE, 22500)
                       + PremiumShare(args.info.priceToBook, 3500)
                       + PremiumShare(args.info.priceToSalesTrailing12Months, 2500)
            /\ label = "EXPENSIVE" <=> score > 20 * RelDen
            /\ label = "SLIGHTLY EXPENSIVE" <=> (10 * RelDen < score /\ score <= 20 * RelDen)
            /\ label = "FAIR" <=> ((-10) * RelDen < score /\ score <= 10 * RelDen)
            /\ label = "SLIGHTLY CHEAP" <=> ((-20) * RelDen < score /\ score <= (-10) * RelDen)
            /\ label = "CHEAP" <=> score <= (-20) * RelDen
            /\ (\A key \in RatioKeys : ~usable(key)) => (label = "FAIR" /\ score = 0)

\* a call with P/E 36.0 and no other usable ratio (P/B 0, P/S absent): the
\* score is exactly 20 and the label is SLIGHTLY EXPENSIVE
C24_Witness ==
    /\ fn = "calculate_relative_valuation"
    /\ ret.returned
    /\ args.info.trailingPE = Num(36000)
    /\ args.info.priceToBook = Num(0)
    /\ args.info.priceToSalesTrailing12Months = Missing
    /\ ret.value.premium_discount = 20 * RelDen
    /\ ret.value.overall_valuation = "SLIGHTLY EXPENSIVE"

\* FCF * (1 + g)^y / (1 + r)^y, one year at a time
RECURSIVE PresentValue(_, _, _, _)
PresentValue(free_cash_flow, g, r, y) ==
    IF y = 0 THEN free_cash_flow
    ELSE SMulDiv(PresentValue(free_cash_flow, g, r, y - 1), RateScale + g, RateScale + r)

\* the sum for y = 1..years of FCF * (1 + g)^y / (1 + r)^y
RECURSIVE PresentValueSum(_, _, _, _)
PresentValueSum(free_cash_flow, g, r, years) ==
    IF years = 0 THEN 0
    ELSE PresentValueSum(free_cash_flow, g, r, years - 1)
         + PresentValue(free_cash_flow, g, r, years)

\* FCF * (1 + g)^years * (1 + tg) / (r - tg) / (1 + r)^years
TerminalPresentValue(free_cash_flow, g, tg, r, years) ==
    SMulDiv(PresentValue(free_cash_flow, g, r, years), RateScale + tg, r - tg)

\* The loop truncates every product and quotient to the cent and the closed
\* forms truncate once a year.  One truncation loses less than a cent, at
\* most two per year and term are made, a later growth of at most
\* (1 + g)^years < 3 enlarges the loss, and the division by r - tg enlarges
\* it by 1 / |r - tg|.
CashFlowTolerance(years) == 3 * years * (years + 1)

TerminalTolerance(years, tg, r) ==
    (3 * (2 * years + 2)) * (RateScale \div Abs(r - tg) + 1)

\* C25: in every result of calculate_dcf enterprise_value is pv_cash_flows +
\* pv_terminal, pv_cash_flows is the sum for y = 1..years of
\* FCF * (1 + g)^y / (1 + r)^y and pv_terminal is
\* FCF * (1 + g)^years * (1 + tg) / (r - tg) / (1 + r)^years (to the
\* precision of the cent arithmetic), with g, tg and r the arguments or
\* their defaults 0.05, 0.025 and 0.10; the result holds
\* equity_value_per_share = enterprise_value / shares if and only if
\* shares_outstanding is a positive number; FCF 100, g 0.10, tg 0.025,
\* r 0.10 and 5 years give pv_cash_flows 500 (to that precision) and a
\* positive enterprise value.
C25_DcfClosedForm ==
    (fn = "calculate_dcf" /\ ret.value.kind = "result") =>
        LET FCF == args.free_cash_flow.v
            g == IF IsNum(args.growth_rate) THEN args.growth_rate.v ELSE 500
            tg == IF IsNum(args.terminal_growth_rate)
                  THEN args.terminal_growth_rate.v ELSE 250
            r == IF IsNum(args.discount_rate) THEN args.discount_rate.v ELSE 1000
            shares == args.shares_outstanding
            result == ret.value
        IN  /\ result.enterprise_value = result.pv_cash_flows + result.pv_terminal
            /\ Abs(result.pv_cash_flows - PresentValueSum(FCF, g, r, args.years))
                  <= CashFlowTolerance(args.years)
            /\ Abs(result.pv_terminal - TerminalPresentValue(FCF, g, tg, r, args.years))
                  <= TerminalTolerance(args.years, tg, r)
            /\ result.has_equity_value_per_share <=> (IsNum(shares) /\ shares.v > 0)
            /\ result.has_equity_value_per_share =>
                  Abs(result.enterprise_value - result.equity_value_per_share * shares.v)
                      < shares.v
            /\ (FCF = 100 * 100 /\ g = 1000 /\ tg = 250 /\ r = 1000 /\ args.years = 5) =>
                  /\ Abs(result.pv_cash_flows - 500 * 100) <= CashFlowTolerance(5)
                  /\ result.enterprise_value > 0

\* the call calculate_dcf(100, 0.10, 0.025, 0.10, 5, shares) with a positive
\* share count: pv_cash_flows is 500.00 to the cent and the per-share value
\* is there
C25_Witness ==
    /\ fn = "calculate_dcf"
    /\ args.free_cash_flow = Num(100 * 100)
    /\ args.growth_rate = Num(1000)
    /\ args.terminal_growth_rate = Num(250)
    /\ args.discount_rate = Num(1000)
    /\ args.years = 5
    /\ args.shares_outstanding = Num(100)
    /\ ret.value.kind = "result"
    /\ Abs(ret.value.pv_cash_flows - 500 * 100) <= 1
    /\ ret.value.pv_terminal > 0
    /\ ret.value.has_equity_value_per_share

\* the market_conditions label that the beta rule gives a beta
BetaLabel(beta) ==
    IF IsNum(beta) /\ beta.v > 130 THEN "HIGH VOLATILITY"
    ELSE IF IsNum(beta) /\ beta.v < 70 THEN "LOW VOLATILITY"
    ELSE "NEUTRAL"

\* C26: in a full result macroAnalysis.market_conditions is HIGH VOLATILITY
\* iff the beta of the info dictionary of the request is a number > 1.3,
\* LOW VOLATILITY iff it is a number < 0.7 and NEUTRAL otherwise, unknown
\* beta included; that beta is the one of the fundamental beta factor and of
\* the DCF discount rate; sector outlook, interest-rate sensitivity,
\* inflation impact and recession resilience are as the sector rules left
\* them.
C26_MarketConditionsFromRequestBeta ==
    (fn = "generate_ai_analysis" /\ pc = "done" /\ frame.raised = 0) =>
        LET beta == Get(args.info, "beta", None)
            macro == ret.value.macroAnalysis
            sector == SectorRules(MacroDefaults, args.stock_data.sector,
                                  args.stock_data.industry)
        IN  /\ macro.populated
            /\ macro.market_conditions = BetaLabel(beta)
            /\ IsNum(beta) => DiscountRate(args.info) = 300 + 7 * beta.v
            /\ macro.sector_outlook = sector.sector_outlook
            /\ macro.interest_rate_sensitivity = sector.interest_rate_sensitivity
            /\ macro.inflation_impact = sector.inflation_impact
            /\ macro.recession_resilience = sector.recession_resilience

\* C27: with a known positive current price the value points earned are
\* raised by 15 when the DCF per-share value is more than 15% above the
\* current price and lowered by 15 when it is more than 15% below it, and
\* left alone in between; they are raised by 10 when the relative valuation
\* is CHEAP and lowered by 10 when it is EXPENSIVE; the value score is
\* 100 * adjusted / possible clamped to [0, 100].
C27_SymmetricValueAdjustments ==
    (fn = "generate_ai_analysis" /\ pc = "done" /\ frame.raised = 0
     /\ IsNum(frame.current_price) /\ frame.current_price.v > 0) =>
        LET val == ValueScoring(args.info, frame.current_price)
            dcf_price == frame.dcf_result.equity_value_per_share
            label == ret.value.relativeValuation.overall_valuation
            dcf_change ==
                IF ~HasDcfPrice(frame.dcf_result) THEN 0
                ELSE IF dcf_price * 100 > frame.current_price.v * 115 THEN 15
                ELSE IF dcf_price * 100 < frame.current_price.v * 85 THEN -15
                ELSE 0
            rel_change == IF label = "CHEAP" THEN 10
                          ELSE IF label = "EXPENSIVE" THEN -10 ELSE 0
            adjusted == val.score + dcf_change + rel_change
        IN  /\ frame.value_score = adjusted
            /\ val.max > 0 =>
                  ret.value.scores.value
                      = RoundScore(Max(0, Min(100 * ScoreDen,
                                              (100 * adjusted * ScoreDen) \div val.max)))

\* C28: in every dictionary that generate_ai_analysis returns, after a
\* normal run or after the except clause, overallRating is one of STRONG
\* BUY, BUY, HOLD, WEAK HOLD and SELL, and rating, risk level, confidence
\* and a price target taken from the multiplier describe one overall score:
\* the one the run computed, or the 50 of the fallback; the confidence 50 of
\* the fallback is never paired with a rating of another score or with the
\* initial NEUTRAL.
C28_ConfidenceAndRatingAgree ==
    (fn = "generate_ai_analysis" /\ pc = "done") =>
        /\ ret.value.overallRating \in {"STRONG BUY", "BUY", "HOLD", "WEAK HOLD", "SELL"}
        /\ \E score \in IF frame.raised = 0 THEN {frame.overall_score}
                        ELSE {50 * 100 * ScoreDen} :
              /\ ret.value.confidence = RoundOverall(score)
              /\ ret.value.overallRating = Rating(score).overallRating
              /\ ret.value.riskLevel = Rating(score).riskLevel
              /\ LET target_mean == Get(args.info, "targetMeanPrice", None)
                 IN  (~(IsNum(target_mean) /\ target_mean.v > 0)
                      /\ IsNum(ret.value.priceTarget)) =>
                        ret.value.priceTarget =
                            PriceTarget(target_mean, frame.current_price, score)

\* the fundamental points that a record earns by its trailing P/E: what
\* fund_score loses when the P/E is taken out of the record
PeEarned(info) ==
    FundamentalScoring(info).score
        - FundamentalScoring([info EXCEPT !.trailingPE = Missing]).score

\* C29: the fundamental points earned by the P/E factor never increase with
\* the trailing P/E: a record with a positive P/E earns at least the P/E
\* points of the same record with any larger P/E, and every positive P/E
\* earns 18, 15 or 5 of the 20 points.
C29_PePointsNonIncreasing ==
    (fn = "generate_ai_analysis" /\ pc = "valuation"
     /\ IsNum(args.info.trailingPE) /\ args.info.trailingPE.v > 0) =>
        LET earned == frame.fund_score
                        - FundamentalScoring([args.info EXCEPT !.trailingPE = Missing]).score
        IN  /\ earned \in {18, 15, 5}
            /\ \A b \in InfoDomain.trailingPE :
                  (IsNum(b) /\ b.v > args.info.trailingPE.v)
                      => earned >= PeEarned([args.info EXCEPT !.trailingPE = b])

\* C30: for every info dictionary with a positive free cash flow and a
\* positive share count, whatever beta, revenue growth and earnings growth
\* are, the DCF of the scorer runs with a growth rate within [0.02, 0.15]
\* and a discount rate 0.03 + 0.07 * beta above the terminal growth rate
\* 0.025, dcfValuation.intrinsicValue is a positive number and the DCF step
\* does not raise.
C30_ScorerDcfWellDefined ==
    (/\ fn = "generate_ai_analysis"
     /\ pc = "done"
     /\ IsNum(frame.current_price)
     /\ frame.raised # 876
     /\ IsNum(Get(args.info, "freeCashflow", None))
     /\ Get(args.info, "freeCashflow", None).v > 0
     /\ IsNum(Get(args.info, "sharesOutstanding", None))
     /\ Get(args.info, "sharesOutstanding", None).v > 0) =>
        /\ 200 <= GrowthRate(args.info)
        /\ GrowthRate(args.info) <= 1500
        /\ DiscountRate(args.info) = 300 + 7 * BetaVal(args.info)
        /\ DiscountRate(args.info) > 250
        /\ frame.raised # 952
        /\ ret.value.dcfValuation.populated
        /\ "intrinsicValue" \in DOMAIN ret.value.dcfValuation
        /\ ret.value.dcfValuation.intrinsicValue > 0

=============================================================================
